---- MODULE Spec2Model ----
(***************************************************************************)
(* Model of the MindType core engine (src/tools/mindtype_core.py): the     *)
(* structural validator validate_interpretation and the three-pass         *)
(* pipeline of CorrectionEngine.correct.                                   *)
(*                                                                         *)
(* Python strings are modelled as sequences of one-character strings, so   *)
(* that strip, lower, split and the regular expressions are computed       *)
(* character by character.  Floats that the code compares are modelled as  *)
(* exact rationals: config ratios are kept in tenths, the confidence as a  *)
(* pair <<numerator, denominator>>.                                        *)
(***************************************************************************)
EXTENDS Integers, Sequences, FiniteSets, TLC

\* ------------------------------------------------------------------ bounds
\* Number of chunks concatenated to build an original / a candidate text of
\* the validator, and a text handed to CorrectionEngine.correct.
MaxInChunks == 2
MaxOutChunks == 3
MaxTextChunks == 4
MaxSentenceChunks == 3
MaxNeighbours == 2
MaxSentenceWords == 8
MaxMixedWords == 3
MaxTrainingWords == 2
MaxDropLen == 4
MaxRunWords == 4
MaxSplitLen == 6
MaxDemoText == 3
MaxPauseCalls == 2

\* ------------------------------------------------------- character classes
UpperLetters == <<"A","B","C","D","E","F","G","H","I","J","K","L","M",
                  "N","O","P","Q","R","S","T","U","V","W","X","Y","Z">>
LowerLetters == <<"a","b","c","d","e","f","g","h","i","j","k","l","m",
                  "n","o","p","q","r","s","t","u","v","w","x","y","z">>

Range(s) == {s[i] : i \in 1..Len(s)}

UpperSet == Range(UpperLetters)
LowerSet == Range(LowerLetters)

\* str.isspace for the characters of the model
IsSpace(c) == c \in {" ", "\t", "\n"}
\* [A-Z]
IsUpper(c) == c \in UpperSet
\* \w of the re module, for the characters of the model
Digits == {"0","1","2","3","4","5","6","7","8","9"}
\* \w of the re module on the texts modelled here: letters, digits, underscore
IsWordChar(c) == c \in UpperSet \/ c \in LowerSet \/ c \in Digits \/ c = "_"
\* [.!?]
IsTerminal(c) == c \in {".", "!", "?"}
\* [bcdfghjklmnpqrstvwxz]
Consonants == {"b","c","d","f","g","h","j","k","l","m","n","p",
               "q","r","s","t","v","w","x","z"}
IsConsonant(c) == c \in Consonants

\* the letter-to-letter tables of str.lower and str.upper
ToLower == [c \in UpperSet |->
               LowerLetters[CHOOSE i \in 1..Len(UpperLetters) : UpperLetters[i] = c]]
ToUpper == [c \in LowerSet |->
               UpperLetters[CHOOSE i \in 1..Len(LowerLetters) : LowerLetters[i] = c]]

LowerChar(c) == IF c \in UpperSet THEN ToLower[c] ELSE c
UpperChar(c) == IF c \in LowerSet THEN ToUpper[c] ELSE c

\* str.lower / str.upper
lower(s) == [i \in 1..Len(s) |-> LowerChar(s[i])]
upper(s) == [i \in 1..Len(s) |-> UpperChar(s[i])]

\* str.strip(): drop leading and trailing whitespace
strip(s) ==
    LET keep == {i \in 1..Len(s) : ~IsSpace(s[i])}
    IN  IF keep = {} THEN <<>>
        ELSE LET lo == CHOOSE i \in keep : \A j \in keep : i <= j
                 hi == CHOOSE i \in keep : \A j \in keep : i >= j
             IN  SubSeq(s, lo, hi)

\* len(text.split()): number of maximal runs of non-whitespace characters
word_count(s) ==
    Cardinality({i \in 1..Len(s) :
                    ~IsSpace(s[i]) /\ (i = 1 \/ IsSpace(s[i-1]))})

\* s.startswith(p)
StartsWith(s, p) == Len(p) <= Len(s) /\ SubSeq(s, 1, Len(p)) = p

Abs(n) == IF n < 0 THEN -n ELSE n
Max(a, b) == IF a >= b THEN a ELSE b
Min(a, b) == IF a <= b THEN a ELSE b

\* ------------------------------------------------------------ configuration
\* MindTypeConfig; length_ratio_max and length_ratio_min are in tenths.
MindTypeConfig(mw, mc, rmax, rmin, tol, review, orig) ==
    [min_words |-> mw, min_chars |-> mc,
     length_ratio_max |-> rmax, length_ratio_min |-> rmin,
     sentence_tolerance |-> tol,
     enable_self_review |-> review,
     return_original_on_failure |-> orig]

DEFAULT_CONFIG  == MindTypeConfig(3, 10, 18, 5, 1, TRUE, TRUE)
BALANCED_CONFIG == DEFAULT_CONFIG
STRICT_CONFIG   == MindTypeConfig(4, 10, 15, 6, 1, TRUE, TRUE)
LENIENT_CONFIG  == MindTypeConfig(2, 10, 20, 4, 1, FALSE, TRUE)

Presets == {BALANCED_CONFIG, STRICT_CONFIG, LENIENT_CONFIG}

\* ------------------------------------- corruption levels (generate_fuzzy_training)
CorruptionLevel(name, operations, intensity) ==
    [name |-> name, operations |-> operations, intensity |-> intensity]

LIGHT   == CorruptionLevel("light", 1, 20)
MEDIUM  == CorruptionLevel("medium", 2, 35)
HEAVY   == CorruptionLevel("heavy", 3, 50)
EXTREME == CorruptionLevel("extreme", 4, 70)

Levels == {LIGHT, MEDIUM, HEAVY, EXTREME}

\* no level: the value of level before a call
NoLevel == CorruptionLevel("none", 0, 0)

\* ------------------------------------------------------------------ validator
\* REJECTION_PATTERNS, each regular expression expanded into the literal
\* prefixes it matches (the optional apostrophe and the alternations).
REJECTION_PATTERNS ==
    { <<"i","'","m"," ","n","o","t"," ","s","u","r","e">>,
      <<"i","m"," ","n","o","t"," ","s","u","r","e">>,
      <<"i"," ","d","o","n","'","t"," ","u","n","d","e","r","s","t","a","n","d">>,
      <<"i"," ","d","o","n","t"," ","u","n","d","e","r","s","t","a","n","d">>,
      <<"i"," ","c","a","n","'","t">>,
      <<"i"," ","c","a","n","t">>,
      <<"s","o","r","r","y">>,
      <<"p","l","e","a","s","e"," ","p","r","o","v","i","d","e">>,
      <<"w","h","a","t"," ","d","o"," ","y","o","u"," ","m","e","a","n">>,
      <<"c","o","u","l","d"," ","y","o","u">>,
      <<"c","a","n"," ","y","o","u">>,
      <<"i","t"," ","s","e","e","m","s"," ","l","i","k","e">>,
      <<"i"," ","t","h","i","n","k"," ","y","o","u">>,
      <<"t","h","i","s"," ","t","e","x","t">>,
      <<"t","h","i","s"," ","i","n","p","u","t">>,
      <<"t","h","i","s"," ","m","e","s","s","a","g","e">>,
      <<"t","h","e"," ","t","e","x","t">>,
      <<"t","h","e"," ","i","n","p","u","t">>,
      <<"t","h","e"," ","m","e","s","s","a","g","e">> }

\* any(re.search(pattern, output_lower) for pattern in REJECTION_PATTERNS):
\* every pattern starts with ^, so a match is a match at the first character.
matches_rejection(output_lower) ==
    \E p \in REJECTION_PATTERNS : StartsWith(output_lower, p)

\* len(re.findall(r'[.!?]+', text)): maximal runs of terminal punctuation
explicit_count(text) ==
    Cardinality({i \in 1..Len(text) :
                    IsTerminal(text[i]) /\ (i = 1 \/ ~IsTerminal(text[i-1]))})

\* len(re.findall(r'\.\s+[A-Z]|^\s*[A-Z]', text))
caps_count(text) ==
    LET afterDot == {i \in 1..Len(text) :
                        /\ text[i] = "."
                        /\ \E j \in (i+2)..Len(text) :
                              /\ IsUpper(text[j])
                              /\ \A k \in (i+1)..(j-1) : IsSpace(text[k])}
        atStart  == \E j \in 1..Len(text) :
                        /\ IsUpper(text[j])
                        /\ \A k \in 1..(j-1) : IsSpace(text[k])
    IN  Cardinality(afterDot) + (IF atStart THEN 1 ELSE 0)

count_sentences(text) ==
    LET explicit == explicit_count(text)
    IN  IF explicit > 0 THEN explicit ELSE Max(1, caps_count(text))

\* variant: runs of 4 or more consonants counted wherever they occur
non_word_count_anywhere(text) ==
    Cardinality({i \in 1..Len(text) :
        /\ IsConsonant(text[i])
        /\ (i = 1 \/ ~IsConsonant(text[i-1]))
        /\ i + 3 <= Len(text)
        /\ \A k \in i..(i+3) : IsConsonant(text[k])})

\* len(re.findall(r'\b[bcdfghjklmnpqrstvwxz]{4,}\b', text)): a match starts at
\* a word boundary, runs over consonants only and ends at a word boundary.
non_word_count(text) ==
    Cardinality({i \in 1..Len(text) :
        /\ IsWordChar(text[i])
        /\ (i = 1 \/ ~IsWordChar(text[i-1]))
        /\ \E j \in (i+3)..Len(text) :
              /\ \A k \in i..j : IsConsonant(text[k])
              /\ (j = Len(text) \/ ~IsWordChar(text[j+1]))})

ValidationResult(valid, conf, kind, args) ==
    [is_valid |-> valid, confidence |-> conf,
     reason |-> [kind |-> kind, args |-> args]]

\* the float 0.0 of a rejected result
ZeroConfidence == <<0, 1>>

\* confidence_of with the sentence score of a mismatch (0.7) given to a match
confidence_of_low(li, lo, diff) ==
    LET lsNum == IF li > 0 THEN 2 * li - Abs(li - lo) ELSE 1
        lsDen == IF li > 0 THEN 2 * li ELSE 2
    IN  <<10 * lsNum + 7 * lsDen, 20 * lsDen>>

\* confidence_of as the sum of the two scores, not their average
confidence_of_sum(li, lo, diff) ==
    LET lsNum == IF li > 0 THEN 2 * li - Abs(li - lo) ELSE 1
        lsDen == IF li > 0 THEN 2 * li ELSE 2
        ssNum == IF diff = 0 THEN 10 ELSE 7
    IN  <<10 * lsNum + ssNum * lsDen, 10 * lsDen>>

\* confidence of an accepted result, as numerator over denominator:
\*   length_score   = 1.0 - abs(1.0 - ratio) * 0.5   (0.5 for an empty input)
\*   sentence_score = 1.0 if diff == 0 else 0.7
\*   confidence     = (length_score + sentence_score) / 2
confidence_of(li, lo, diff) ==
    LET lsNum == IF li > 0 THEN 2 * li - Abs(li - lo) ELSE 1
        lsDen == IF li > 0 THEN 2 * li ELSE 2
        ssNum == IF diff = 0 THEN 10 ELSE 7
    IN  <<10 * lsNum + ssNum * lsDen, 20 * lsDen>>

\* The checks of validate_interpretation run in sequence, each returning
\* early on failure.  They are written innermost (last) first; ic and oc are
\* input_clean and output_clean.

\* "Passed all checks - calculate confidence based on structure match"
accept_result(ic, oc, config) ==
    LET diff == Abs(count_sentences(oc) - count_sentences(ic))
    IN  ValidationResult(TRUE, confidence_of(Len(ic), Len(oc), diff), "valid", <<>>)

\* Check 4: Not Just Echoing Garbage
check_garbled(ic, oc, config) ==
    LET non_words == non_word_count(lower(oc))
    IN  IF non_words > 2
        THEN ValidationResult(FALSE, ZeroConfidence, "output still garbled", <<>>)
        ELSE accept_result(ic, oc, config)

\* check_sentence_count with the tolerance compared by >= instead of >
check_sentence_count_inclusive(ic, oc, config) ==
    LET input_sentences  == count_sentences(ic)
        output_sentences == count_sentences(oc)
        diff == Abs(output_sentences - input_sentences)
    IN  IF diff >= config.sentence_tolerance
        THEN ValidationResult(FALSE, ZeroConfidence, "structure changed",
                              <<input_sentences, output_sentences>>)
        ELSE check_garbled(ic, oc, config)

\* Check 3: Sentence Count
check_sentence_count(ic, oc, config) ==
    LET input_sentences  == count_sentences(ic)
        output_sentences == count_sentences(oc)
        diff == Abs(output_sentences - input_sentences)
    IN  IF diff > config.sentence_tolerance
        THEN ValidationResult(FALSE, ZeroConfidence, "structure changed",
                              <<input_sentences, output_sentences>>)
        ELSE check_garbled(ic, oc, config)

\* check_length_ratio with the bounds compared by >= and <= instead of > and <
check_length_ratio_inclusive(ic, oc, config) ==
    LET li == Len(ic)
        lo == Len(oc)
    IN  IF li > 0 /\ 10 * lo >= config.length_ratio_max * li
        THEN ValidationResult(FALSE, ZeroConfidence, "too long", <<lo, li>>)
        ELSE IF li > 0 /\ 10 * lo <= config.length_ratio_min * li
        THEN ValidationResult(FALSE, ZeroConfidence, "too short", <<lo, li>>)
        ELSE check_sentence_count(ic, oc, config)

\* Check 2: Length Ratio.  ratio = len(output_clean) / len(input_clean) is
\* compared as a rational: ratio > max  <=>  10 * lo > max_tenths * li.
check_length_ratio(ic, oc, config) ==
    LET li == Len(ic)
        lo == Len(oc)
    IN  IF li > 0 /\ 10 * lo > config.length_ratio_max * li
        THEN ValidationResult(FALSE, ZeroConfidence, "too long", <<lo, li>>)
        ELSE IF li > 0 /\ 10 * lo < config.length_ratio_min * li
        THEN ValidationResult(FALSE, ZeroConfidence, "too short", <<lo, li>>)
        ELSE check_sentence_count(ic, oc, config)

\* check_conversational run after the length check instead of before it
check_conversational_late(ic, oc, config) ==
    LET li == Len(ic)
        lo == Len(oc)
    IN  IF li > 0 /\ 10 * lo > config.length_ratio_max * li
        THEN ValidationResult(FALSE, ZeroConfidence, "too long", <<lo, li>>)
        ELSE IF li > 0 /\ 10 * lo < config.length_ratio_min * li
        THEN ValidationResult(FALSE, ZeroConfidence, "too short", <<lo, li>>)
        ELSE IF matches_rejection(lower(oc))
        THEN ValidationResult(FALSE, ZeroConfidence, "conversational response", <<>>)
        ELSE check_sentence_count(ic, oc, config)

\* check_conversational matching the candidate without lower-casing it
check_conversational_cased(ic, oc, config) ==
    IF matches_rejection(oc)
    THEN ValidationResult(FALSE, ZeroConfidence, "conversational response", <<>>)
    ELSE check_length_ratio(ic, oc, config)

\* Check 1: Conversational Response
check_conversational(ic, oc, config) ==
    LET output_lower == lower(oc)
    IN  IF matches_rejection(output_lower)
        THEN ValidationResult(FALSE, ZeroConfidence, "conversational response", <<>>)
        ELSE check_length_ratio(ic, oc, config)

\* if not output_text or not output_text.strip()
is_empty_output(output_text) ==
    output_text = <<>> \/ strip(output_text) = <<>>

validate_interpretation(input_text, output_text, config) ==
    IF is_empty_output(output_text)
    THEN ValidationResult(FALSE, ZeroConfidence, "empty output", <<>>)
    ELSE check_conversational(strip(input_text), strip(output_text), config)

\* ------------------------------------------------------------ input domains
\* Texts are concatenations of a few chunks, so that the cases of the checks
\* (blank text, deflection prefixes in either case, sentence punctuation,
\* consonant-only words, lengths on the ratio bounds) all occur.
Sorry_  == <<"S","o","r","r","y">>
Blank_  == <<" ">>
Hi_     == <<"H","i",".">>
Bcdfg_  == <<"b","c","d","f","g"," ">>
ICant_  == <<"I"," ","c","a","n","'","t">>
Teh_    == <<"t","e","h"," ">>
A_      == <<"a"," ">>
Abcdfg_ == <<"a","b","c","d","f","g"," ">>
BCDF_   == <<"B","C","D","F"," ">>
Bcd_    == <<"b","c","d"," ">>
N4bcdf_ == <<"4","b","c","d","f"," ">>

RECURSIVE Concats(_, _)
Concats(chunks, n) ==
    IF n = 0 THEN {<<>>}
    ELSE LET shorter == Concats(chunks, n - 1)
         IN  shorter \cup {t \o c : t \in shorter, c \in chunks}

\* input_text and output_text of validate_interpretation
Originals  == Concats({Hi_, Bcdfg_}, MaxInChunks)
Candidates == Concats({Sorry_, Blank_, Hi_, Bcdfg_, ICant_}, MaxOutChunks)

\* a configuration outside the presets: ratio window [1.2, 6.0], tolerance 0
TUNED_CONFIG == MindTypeConfig(3, 10, 60, 12, 0, TRUE, TRUE)
ValidatorConfigs == Presets \cup {TUNED_CONFIG}

\* candidates for the garbled check: consonant runs as whole words, inside
\* longer words, in upper case, and too short
GarbledCandidates ==
    Concats({Bcdfg_, Abcdfg_, BCDF_, Bcd_, N4bcdf_}, MaxOutChunks)

\* ------------------------------------------------------------------- state
VARIABLES
    config,        \* the MindTypeConfig in use
    input_text,    \* validate_interpretation: input_text
    output_text,   \* validate_interpretation: output_text
    validation,    \* the ValidationResult returned, Pending before the call
    loaded,        \* CorrectionEngine._loaded
    model_exists,  \* config.model_path is set and exists on disk
    caller_text,   \* correct: the argument text as the caller passed it
    text,          \* correct: the local text (stripped at line 292)
    phase,         \* correct: position of the call in the pipeline
    interpreted,   \* correct: the local interpreted
    interpret_outcome, \* what self._interpret did: none, returned, raised
    review_outcome,    \* what self._review did: none, reasonable,
                       \* unreasonable, raised
    interpret_calls,   \* number of calls of self._interpret in this call
    review_calls,      \* number of calls of self._review in this call
    result,        \* the CorrectionResult returned, NoResult before
    sentence_text,   \* count_sentences: the argument text
    sentence_count,  \* count_sentences: the value returned, NotCounted before
    word_arg,          \* corrupt_word: the argument word
    level_arg,         \* corrupt_word, corrupt_sentence: the argument level
    word_pc,       \* corrupt_word: position of the call
    ops_done,      \* corrupt_word: iterations of the operator loop done
    ops_result,    \* corrupt_word: result when the operator loop ended
    word_result,   \* corrupt_word: the local result, returned at the end
    sentence_arg,    \* corrupt_sentence: the argument sentence
    sent_pc,         \* corrupt_sentence: position of the call
    split_words,     \* corrupt_sentence: the local words
    corrupt_indices, \* corrupt_sentence: the local corrupt_indices, as a set
    sent_result,     \* corrupt_sentence: the local result, a list of words
    sent_returned,   \* corrupt_sentence: the string returned
    td_sentence,     \* generate_training_data.corrupt_sentence: sentence
    td_intensity,    \* its argument intensity, in hundredths
    td_pc,           \* position of the call
    td_words,        \* the local words
    td_corrupted_words, \* the local corrupted_words
    td_word,         \* generate_training_data.corrupt_word: the argument word
    td_num_corruptions, \* corrupt_word: the local num_corruptions
    td_iter,         \* corrupt_word: iterations of the corruption loop done
    td_result,       \* corrupt_word: the local result
    td_returned,     \* corrupt_sentence: the string returned
    op_name,         \* a single operator call: the function called
    op_input,        \* its argument (a word, a character or a sentence)
    op_intensity,    \* its argument intensity, in hundredths
    op_output,       \* the value returned
    op_pc,           \* position of the call
    demo_text,       \* MindFlowDemo.text
    demo_state,      \* MindFlowDemo.state, a MarkerState
    last_correction_applied, \* MindFlowDemo.last_correction_applied
    enabled,         \* MindFlowDemo.enabled
    pause_elapsed,   \* time.time() - last_keystroke exceeds config.pause_ms
    demo_pc,         \* position in run, handle_key and do_correction
    force_now,       \* do_correction: the argument force_now
    sweep_to,        \* animate_sweep: the argument corrected
    pause_calls,     \* calls of engine.correct made from the pause branch
                     \* since handle_key last ran
    news_source,     \* download_corpus.main: args.source
    news_sentences,  \* download_corpus.main: args.sentences
    news_target,     \* download_news_sample: target_sentences
    news_len,        \* download_news_sample: len(all_sentences)
    news_pc          \* position in main and download_news_sample

validator_vars == <<input_text, output_text>>
engine_vars == <<loaded, model_exists, caller_text, text, phase, interpreted,
                 interpret_outcome, review_outcome, interpret_calls,
                 review_calls, result>>
sentence_vars == <<sentence_text, sentence_count>>
\* the state of the functions that a validator or engine call does not touch
word_vars == <<word_arg, level_arg, word_pc, ops_done, ops_result, word_result>>
csent_vars == <<sentence_arg, sent_pc, split_words, corrupt_indices,
                sent_result, sent_returned>>
td_vars == <<td_sentence, td_intensity, td_pc, td_words, td_corrupted_words,
             td_word, td_num_corruptions, td_iter, td_result, td_returned>>
op_vars == <<op_name, op_input, op_intensity, op_output, op_pc>>
\* the state of the tools outside the two generators' word and sentence level
demo_vars == <<demo_text, demo_state, last_correction_applied, enabled,
               pause_elapsed, demo_pc, force_now, sweep_to, pause_calls>>
news_vars == <<news_source, news_sentences, news_target, news_len, news_pc>>
tool_vars == <<op_vars, demo_vars, news_vars>>
other_vars == <<sentence_vars, word_vars, csent_vars, td_vars, tool_vars>>
vars == <<config, validator_vars, validation, engine_vars, other_vars>>

\* count_sentences returns at least 1, so 0 marks a call not yet made
NotCounted == 0
SentencesIdle == sentence_text = <<>> /\ sentence_count = NotCounted
WordIdle ==
    /\ word_arg = <<>> /\ level_arg = NoLevel /\ word_pc = "idle"
    /\ ops_done = 0 /\ ops_result = <<>> /\ word_result = <<>>
CorruptSentenceIdle ==
    /\ sentence_arg = <<>> /\ sent_pc = "idle" /\ split_words = <<>>
    /\ corrupt_indices = {} /\ sent_result = <<>> /\ sent_returned = <<>>
TrainingIdle ==
    /\ td_sentence = <<>> /\ td_intensity = 0 /\ td_pc = "idle"
    /\ td_words = <<>> /\ td_corrupted_words = <<>> /\ td_word = <<>>
    /\ td_num_corruptions = 0 /\ td_iter = 0 /\ td_result = <<>>
    /\ td_returned = <<>>
OperatorIdle ==
    /\ op_name = "none" /\ op_input = <<>> /\ op_intensity = 0
    /\ op_output = <<>> /\ op_pc = "idle"
\* no MindFlowDemo has been constructed
DemoIdle ==
    /\ demo_text = <<>> /\ demo_state = "dormant"
    /\ last_correction_applied = FALSE /\ enabled = FALSE
    /\ pause_elapsed = FALSE /\ demo_pc = "none" /\ force_now = FALSE
    /\ sweep_to = <<>> /\ pause_calls = 0
NewsIdle ==
    /\ news_source = "none" /\ news_sentences = 0 /\ news_target = 0
    /\ news_len = 0 /\ news_pc = "none"
ToolsIdle == OperatorIdle /\ DemoIdle /\ NewsIdle
OthersIdle ==
    /\ SentencesIdle /\ WordIdle /\ CorruptSentenceIdle /\ TrainingIdle
    /\ ToolsIdle

Pending == ValidationResult(FALSE, ZeroConfidence, "pending", <<>>)

\* Optional[str]: None is <<>>, a string s is <<s>>
None == <<>>
Some(s) == <<s>>

CorrectionResult(success, t, conf, kind, args) ==
    [success |-> success, text |-> t, confidence |-> conf,
     reason |-> [kind |-> kind, args |-> args]]

NoResult == CorrectionResult(FALSE, None, ZeroConfidence, "pending", <<>>)

\* the engine before a call of correct
EngineIdle ==
    /\ text = <<>>
    /\ phase = "UNSTARTED"
    /\ interpreted = <<>>
    /\ interpret_outcome = "none"
    /\ review_outcome = "none"
    /\ interpret_calls = 0
    /\ review_calls = 0
    /\ result = NoResult

\* ---------------------------------------------------- validator as a machine
InitGarbled ==
    /\ config \in ValidatorConfigs
    /\ input_text \in Originals
    /\ output_text \in GarbledCandidates
    /\ validation = Pending
    /\ loaded = FALSE /\ model_exists = FALSE /\ caller_text = <<>>
    /\ EngineIdle
    /\ OthersIdle

InitValidate ==
    /\ config \in ValidatorConfigs
    /\ input_text \in Originals
    /\ output_text \in Candidates
    /\ validation = Pending
    /\ loaded = FALSE /\ model_exists = FALSE /\ caller_text = <<>>
    /\ EngineIdle
    /\ OthersIdle

\* validate(original, original)
InitRoundTrip ==
    /\ config \in ValidatorConfigs
    /\ input_text \in Candidates
    /\ output_text = input_text
    /\ validation = Pending
    /\ loaded = FALSE /\ model_exists = FALSE /\ caller_text = <<>>
    /\ EngineIdle
    /\ OthersIdle

Validate ==
    /\ validation = Pending
    /\ validation' = validate_interpretation(input_text, output_text, config)
    /\ UNCHANGED <<other_vars, config, validator_vars, engine_vars>>

NextValidate == Validate

SpecValidate  == InitValidate  /\ [][NextValidate]_vars
SpecRoundTrip == InitRoundTrip /\ [][NextValidate]_vars
SpecGarbled   == InitGarbled   /\ [][NextValidate]_vars

\* ------------------------------------------------------- correction engine
\* the texts handed to correct
EngineTexts == Concats({Blank_, A_, Teh_}, MaxTextChunks)
\* the engine's configuration: a preset, with either fallback behaviour
EngineConfigs ==
    {[c EXCEPT !.return_original_on_failure = b] : c \in Presets, b \in BOOLEAN}

\* "teh" at position k of t
TehAt(t, k) == k >= 1 /\ k + 2 <= Len(t) /\ SubSeq(t, k, k + 2) = <<"t","e","h">>
\* a model output that repairs every "teh" of t into "the"
Repaired(t) ==
    [i \in 1..Len(t) |->
        IF TehAt(t, i - 1) THEN "h" ELSE IF TehAt(t, i - 2) THEN "e" ELSE t[i]]

\* What self._interpret(text) can return: _generate ends with .strip(), so
\* every value is stripped.  The echo, the echo in upper case, nothing, the
\* repaired text, a deflection, a runaway expansion.
InterpretOutputs(t) ==
    { t, upper(t), <<>>, Repaired(t), Sorry_ \o Blank_ \o t,
      Repaired(t) \o Blank_ \o Repaired(t) \o <<".">> }

REASONABLE   == <<"R","E","A","S","O","N","A","B","L","E">>
UNREASONABLE == <<"U","N">> \o REASONABLE
\* What self._generate can answer to the review prompt
ReviewResponses ==
    { REASONABLE, UNREASONABLE, lower(UNREASONABLE) \o <<".">>, <<>> }

\* sub in s
Contains(s, sub) ==
    \E i \in 1..(Len(s) - Len(sub) + 1) : SubSeq(s, i, i + Len(sub) - 1) = sub

\* _review: "UNREASONABLE" not in response.upper()
is_reasonable(response) == ~Contains(upper(response), UNREASONABLE)

\* word_count < self.config.min_words
too_few_words(t, cfg) == word_count(t) < cfg.min_words
\* too_few_chars comparing with min_words instead of min_chars
too_few_chars_by_words(t, cfg) == Len(t) < cfg.min_words

\* len(text) < self.config.min_chars
too_few_chars(t, cfg) == Len(t) < cfg.min_chars

\* fallback_text with the flag inverted
fallback_text_inverted(t, cfg) ==
    IF cfg.return_original_on_failure THEN None ELSE Some(t)

\* text if self.config.return_original_on_failure else None
fallback_text(t, cfg) == IF cfg.return_original_on_failure THEN Some(t) ELSE None

\* interpreted.lower().strip() == text.lower().strip()
no_change_needed(t, out) == strip(lower(out)) = strip(lower(t))

InitEngine ==
    /\ config \in EngineConfigs
    /\ input_text = <<>> /\ output_text = <<>>
    /\ validation = Pending
    /\ loaded = FALSE
    /\ model_exists \in BOOLEAN
    /\ caller_text \in EngineTexts
    /\ EngineIdle
    /\ OthersIdle

\* correct, from its entry to the first collaborator call: auto-load, strip,
\* minimum-input guards.
correct_enter ==
    /\ phase = "UNSTARTED"
    /\ IF ~loaded /\ ~model_exists
       THEN /\ result' = CorrectionResult(FALSE, Some(caller_text), ZeroConfidence,
                                          "model not found", <<>>)
            /\ phase' = "REJECTED"
            /\ UNCHANGED <<loaded, text>>
       ELSE LET t == strip(caller_text)
            IN  /\ loaded' = TRUE
                /\ text' = t
                /\ IF too_few_words(t, config)
                   THEN /\ result' = CorrectionResult(FALSE, fallback_text(t, config),
                                        ZeroConfidence, "need more words",
                                        <<config.min_words - word_count(t)>>)
                        /\ phase' = "REJECTED"
                   ELSE IF too_few_chars(t, config)
                   THEN /\ result' = CorrectionResult(FALSE, fallback_text(t, config),
                                        ZeroConfidence, "need more text", <<>>)
                        /\ phase' = "REJECTED"
                   ELSE /\ result' = result
                        /\ phase' = "INTERPRETING"
    /\ UNCHANGED <<other_vars, config, validator_vars, validation, model_exists, caller_text,
                   interpreted, interpret_outcome, review_outcome,
                   interpret_calls, review_calls>>

\* Pass 1, self._interpret(text) returns: the no-change shortcut, else on to
\* the self-review or straight to validation.
interpret_returns ==
    /\ phase = "INTERPRETING"
    /\ \E out \in InterpretOutputs(text) :
          /\ interpreted' = out
          /\ IF no_change_needed(text, out)
             THEN /\ result' = CorrectionResult(TRUE, Some(text), <<1, 1>>,
                                                "no changes needed", <<>>)
                  /\ phase' = "ACCEPTED"
             ELSE /\ result' = result
                  /\ phase' = IF config.enable_self_review
                              THEN "REVIEWING" ELSE "VALIDATING"
    /\ interpret_outcome' = "returned"
    /\ interpret_calls' = interpret_calls + 1
    /\ UNCHANGED <<other_vars, config, validator_vars, validation, loaded, model_exists,
                   caller_text, text, review_outcome, review_calls>>

\* interpret_raises without the try/except: the exception leaves correct
interpret_raises_propagates ==
    /\ phase = "INTERPRETING"
    /\ interpret_outcome' = "raised"
    /\ interpret_calls' = interpret_calls + 1
    /\ phase' = "RAISED"
    /\ UNCHANGED <<other_vars, config, validator_vars, validation, loaded, model_exists,
                   caller_text, text, interpreted, review_outcome, review_calls,
                   result>>

\* interpret_raises retrying the interpretation instead of giving up
interpret_raises_retries ==
    /\ phase = "INTERPRETING"
    /\ interpret_outcome' = "raised"
    /\ interpret_calls' = interpret_calls + 1
    /\ UNCHANGED <<other_vars, config, validator_vars, validation, loaded, model_exists,
                   caller_text, text, phase, interpreted, review_outcome,
                   review_calls, result>>

\* Pass 1, self._interpret(text) raises: except Exception
interpret_raises ==
    /\ phase = "INTERPRETING"
    /\ interpret_outcome' = "raised"
    /\ interpret_calls' = interpret_calls + 1
    /\ result' = CorrectionResult(FALSE, fallback_text(text, config),
                                  ZeroConfidence, "interpretation error", <<>>)
    /\ phase' = "REJECTED"
    /\ UNCHANGED <<other_vars, config, validator_vars, validation, loaded, model_exists,
                   caller_text, text, interpreted, review_outcome, review_calls>>

\* Pass 2, self._review(text, interpreted) returns
review_returns ==
    /\ phase = "REVIEWING"
    /\ \E response \in ReviewResponses :
          IF is_reasonable(response)
          THEN /\ review_outcome' = "reasonable"
               /\ result' = result
               /\ phase' = "VALIDATING"
          ELSE /\ review_outcome' = "unreasonable"
               /\ result' = CorrectionResult(FALSE, fallback_text(text, config),
                                ZeroConfidence, "self-review: unreasonable", <<>>)
               /\ phase' = "REJECTED"
    /\ review_calls' = review_calls + 1
    /\ UNCHANGED <<other_vars, config, validator_vars, validation, loaded, model_exists,
                   caller_text, text, interpreted, interpret_outcome,
                   interpret_calls>>

\* review_raises accepting the interpretation without validating it
review_raises_accepts ==
    /\ phase = "REVIEWING"
    /\ review_outcome' = "raised"
    /\ review_calls' = review_calls + 1
    /\ result' = CorrectionResult(TRUE, Some(interpreted), <<1, 1>>, "valid", <<>>)
    /\ phase' = "ACCEPTED"
    /\ UNCHANGED <<other_vars, config, validator_vars, validation, loaded, model_exists,
                   caller_text, text, interpreted, interpret_outcome,
                   interpret_calls>>

\* Pass 2, self._review raises: "except: pass  # Continue if review fails"
review_raises ==
    /\ phase = "REVIEWING"
    /\ review_outcome' = "raised"
    /\ review_calls' = review_calls + 1
    /\ phase' = "VALIDATING"
    /\ UNCHANGED <<other_vars, config, validator_vars, validation, loaded, model_exists,
                   caller_text, text, interpreted, interpret_outcome,
                   interpret_calls, result>>

\* Pass 3, structural validation and the final result
validate_and_return ==
    /\ phase = "VALIDATING"
    /\ LET v == validate_interpretation(text, interpreted, config)
       IN  /\ validation' = v
           /\ IF v.is_valid
              THEN /\ result' = [success |-> TRUE, text |-> Some(interpreted),
                                 confidence |-> v.confidence, reason |-> v.reason]
                   /\ phase' = "ACCEPTED"
              ELSE /\ result' = [success |-> FALSE,
                                 text |-> fallback_text(text, config),
                                 confidence |-> v.confidence, reason |-> v.reason]
                   /\ phase' = "REJECTED"
    /\ UNCHANGED <<other_vars, config, validator_vars, loaded, model_exists, caller_text,
                   text, interpreted, interpret_outcome, review_outcome,
                   interpret_calls, review_calls>>

\* the caller calls correct again on the same engine: fresh locals, _loaded kept
next_call ==
    /\ phase \in {"ACCEPTED", "REJECTED"}
    /\ caller_text' \in EngineTexts
    /\ validation' = Pending
    /\ text' = <<>>
    /\ phase' = "UNSTARTED"
    /\ interpreted' = <<>>
    /\ interpret_outcome' = "none"
    /\ review_outcome' = "none"
    /\ interpret_calls' = 0
    /\ review_calls' = 0
    /\ result' = NoResult
    /\ UNCHANGED <<other_vars, config, validator_vars, loaded, model_exists>>

NextEngine ==
    \/ correct_enter
    \/ interpret_returns
    \/ interpret_raises
    \/ review_returns
    \/ review_raises
    \/ validate_and_return
    \/ next_call

SpecEngine == InitEngine /\ [][NextEngine]_vars

\* ------------------------------------------------- claims on the validator
Called == validation # Pending
Kind == validation.reason.kind
InClean == strip(input_text)
OutClean == strip(output_text)

\* the five checks, stated on the texts themselves
FailsEmpty == \A i \in 1..Len(output_text) : IsSpace(output_text[i])
FailsConversational ==
    \E p \in REJECTION_PATTERNS : StartsWith(lower(OutClean), p)
RatioAbove == 10 * Len(OutClean) > config.length_ratio_max * Len(InClean)
RatioBelow == 10 * Len(OutClean) < config.length_ratio_min * Len(InClean)
FailsLength == Len(InClean) > 0 /\ (RatioAbove \/ RatioBelow)
SentenceDiff == Abs(count_sentences(OutClean) - count_sentences(InClean))
FailsSentences == SentenceDiff > config.sentence_tolerance
FailsGarbled == non_word_count(lower(OutClean)) > 2

\* C6: the reason returned is that of the first failing check in the order
\* empty output, conversational response, length ratio, sentence count,
\* still garbled; a blank candidate always yields "empty output"; the result
\* is valid, with reason "valid", exactly when no check fails.
C6_FirstFailingCheckDecides ==
    Called =>
        /\ FailsEmpty => Kind = "empty output"
        /\ ~FailsEmpty /\ FailsConversational => Kind = "conversational response"
        /\ ~FailsEmpty /\ ~FailsConversational /\ FailsLength
              => Kind \in {"too long", "too short"}
        /\ ~FailsEmpty /\ ~FailsConversational /\ ~FailsLength /\ FailsSentences
              => Kind = "structure changed"
        /\ ~FailsEmpty /\ ~FailsConversational /\ ~FailsLength /\ ~FailsSentences
              /\ FailsGarbled
              => Kind = "output still garbled"
        /\ validation.is_valid <=>
              ~(FailsEmpty \/ FailsConversational \/ FailsLength
                \/ FailsSentences \/ FailsGarbled)
        /\ validation.is_valid <=> Kind = "valid"

\* a candidate failing the conversational, the length and the sentence check
C6_Witness ==
    /\ Called /\ FailsConversational /\ FailsLength /\ FailsSentences
    /\ Kind = "conversational response"

\* C7 as stated: validate(s, s) is valid with confidence 1.0 for every s.
C7_RoundTripAlwaysPasses ==
    Called /\ input_text = output_text =>
        /\ validation.is_valid
        /\ validation.confidence[1] = validation.confidence[2]

\* C7 amended: validate(s, s) is valid with confidence 1.0 for every s that is
\* not blank, starts with no deflection pattern and holds at most 2
\* consonant-only words of 4 or more letters, under a configuration with
\* length_ratio_min <= 1 <= length_ratio_max; a blank s is rejected as
\* "empty output", a deflection prefix as "conversational response".
C7_RoundTripPassesUnlessRejectable ==
    Called /\ input_text = output_text =>
        /\ ( /\ ~FailsEmpty /\ ~FailsConversational /\ ~FailsGarbled
             /\ config.length_ratio_min <= 10 /\ 10 <= config.length_ratio_max )
           => /\ validation.is_valid
              /\ validation.confidence[1] = validation.confidence[2]
        /\ FailsEmpty => ~validation.is_valid /\ Kind = "empty output"
        /\ ~FailsEmpty /\ FailsConversational
              => ~validation.is_valid /\ Kind = "conversational response"

C7_Witness ==
    /\ Called /\ input_text = output_text /\ output_text = Hi_ \o Bcdfg_
    /\ validation.is_valid

\* C8: a non-blank candidate whose stripped, lower-cased text begins with a
\* deflection pattern is rejected as "conversational response" whatever the
\* original, the lengths and the sentence counts; a candidate is rejected
\* with that reason only when the pattern is at its start.
C8_DeflectionPrefixRejected ==
    Called =>
        /\ ~FailsEmpty /\ FailsConversational
              => ~validation.is_valid /\ Kind = "conversational response"
        /\ Kind = "conversational response" => FailsConversational

\* "Sorry..." (capital S) against an original it is too long for
C8_Witness ==
    /\ Called /\ StartsWith(OutClean, Sorry_) /\ FailsLength
    /\ Kind = "conversational response"

\* C9: past the empty and conversational checks, with a non-empty stripped
\* original, the result is "too long" exactly when ratio > length_ratio_max
\* and "too short" exactly when ratio < length_ratio_min; a ratio equal to a
\* bound is not rejected by this check.
C9_LengthRatioBoundsStrict ==
    Called /\ ~FailsEmpty /\ ~FailsConversational /\ Len(InClean) > 0 =>
        /\ Kind = "too long" <=> RatioAbove
        /\ Kind = "too short" <=> RatioBelow
        /\ Kind = "too long" => validation.reason.args = <<Len(OutClean), Len(InClean)>>

\* a ratio exactly on the upper bound, not rejected for its length
C9_Witness ==
    /\ Called /\ ~FailsEmpty /\ ~FailsConversational /\ Len(InClean) > 0
    /\ 10 * Len(OutClean) = config.length_ratio_max * Len(InClean)
    /\ Kind \notin {"too long", "too short"}

\* C10: past the earlier checks the result is "structure changed" exactly
\* when |count_sentences(candidate) - count_sentences(original)| exceeds
\* sentence_tolerance; a difference equal to the tolerance is accepted.
C10_SentenceToleranceStrict ==
    Called /\ ~FailsEmpty /\ ~FailsConversational /\ ~FailsLength =>
        (Kind = "structure changed" <=> SentenceDiff > config.sentence_tolerance)

\* a difference of exactly the tolerance 1, accepted
C10_Witness ==
    /\ Called /\ ~FailsEmpty /\ ~FailsConversational /\ ~FailsLength
    /\ config.sentence_tolerance = 1 /\ SentenceDiff = 1
    /\ validation.is_valid

\* --------------------------------------------------- claims on the engine
Returned == phase \in {"ACCEPTED", "REJECTED"}
StrippedCallerText == strip(caller_text)
\* the minimum-input guards, stated on the caller's text
BelowMinimum ==
    \/ word_count(StrippedCallerText) < config.min_words
    \/ Len(StrippedCallerText) < config.min_chars
ExpectedFallback ==
    IF config.return_original_on_failure THEN Some(StrippedCallerText) ELSE None

C2_SuccessOnlyAfterValidation ==
    Returned /\ interpret_calls > 0 /\ result.success =>
        /\ validation # Pending
        /\ validation.is_valid

PhaseSteps ==
    { <<"UNSTARTED", "INTERPRETING">>, <<"UNSTARTED", "REJECTED">>,
      <<"INTERPRETING", "REVIEWING">>, <<"INTERPRETING", "VALIDATING">>,
      <<"INTERPRETING", "ACCEPTED">>, <<"INTERPRETING", "REJECTED">>,
      <<"REVIEWING", "VALIDATING">>, <<"REVIEWING", "REJECTED">>,
      <<"VALIDATING", "ACCEPTED">>, <<"VALIDATING", "REJECTED">>,
      <<"ACCEPTED", "UNSTARTED">>, <<"REJECTED", "UNSTARTED">> }

\* C2 amended: the phases are entered in the order UNSTARTED, INTERPRETING,
\* optional REVIEWING (exactly when enable_self_review), VALIDATING, then
\* ACCEPTED or REJECTED, except that a call may end early: REJECTED from
\* INTERPRETING (interpretation error) or REVIEWING (unreasonable), and
\* ACCEPTED from INTERPRETING when the interpretation equals the text up to
\* case and surrounding whitespace ("no changes needed", the original text
\* returned).  The interpreted text is returned with success=True only after
\* validate_interpretation ran on it and accepted it.
C2_PhaseOrderWithEarlyExits ==
    [][ phase' # phase =>
          /\ <<phase, phase'>> \in PhaseSteps
          /\ phase = "INTERPRETING" /\ phase' = "REVIEWING" => config.enable_self_review
          /\ phase = "INTERPRETING" /\ phase' = "VALIDATING" => ~config.enable_self_review
          /\ phase = "INTERPRETING" /\ phase' = "ACCEPTED" =>
                /\ strip(lower(interpreted')) = lower(StrippedCallerText)
                /\ result'.text = Some(StrippedCallerText)
                /\ result'.reason.kind = "no changes needed"
                /\ validation' = Pending
          /\ phase = "VALIDATING" /\ phase' = "ACCEPTED" =>
                /\ validation' = validate_interpretation(StrippedCallerText,
                                                         interpreted, config)
                /\ validation'.is_valid
                /\ result'.success /\ result'.text = Some(interpreted)
          /\ phase' = "REJECTED" => ~result'.success
      ]_vars

\* success=True straight from INTERPRETING, the validator never run
C2_Witness ==
    /\ phase = "ACCEPTED" /\ result.success /\ validation = Pending
    /\ interpreted # StrippedCallerText /\ interpret_calls = 1

\* C3: a text that after stripping has fewer than min_words words or fewer
\* than min_chars characters never reaches the collaborator, and its call
\* returns a failure.
C3_GuardsShortCircuit ==
    BelowMinimum =>
        /\ phase \in {"UNSTARTED", "REJECTED"}
        /\ interpret_calls = 0 /\ review_calls = 0
        /\ interpret_outcome = "none" /\ review_outcome = "none"
        /\ Returned => ~result.success

\* enough words but too few characters, rejected with the model loaded
C3_Witness ==
    /\ loaded /\ phase = "REJECTED"
    /\ word_count(StrippedCallerText) >= config.min_words
    /\ Len(StrippedCallerText) < config.min_chars
    /\ result.reason.kind = "need more text"

C5_NoRetry ==
    /\ interpret_calls <= 1 /\ review_calls <= 1
    /\ review_calls = 1 =>
          /\ config.enable_self_review
          /\ interpret_calls = 1 /\ interpret_outcome = "returned"
    /\ phase \in {"REVIEWING", "VALIDATING"} => interpret_calls = 1
    /\ phase = "VALIDATING" => review_calls = IF config.enable_self_review THEN 1 ELSE 0
    /\ Returned /\ loaded /\ ~BelowMinimum => interpret_calls = 1
    /\ Returned /\ interpret_outcome = "raised" => interpret_calls = 1

\* a call that failed validation after one interpretation and one review
C5_Witness ==
    /\ phase = "REJECTED" /\ validation # Pending
    /\ interpret_calls = 1 /\ review_calls = 1

\* ------------------------------------------- count_sentences as a machine
HiSp_ == <<"H","i"," ">>
So_   == <<"S","o"," ">>
It_   == <<"i","t"," ">>
Dot_  == <<".">>
What_ == <<"!","?">>

SentenceTexts == Concats({HiSp_, So_, It_, Dot_, What_}, MaxSentenceChunks)

core_vars == <<config, validator_vars, validation, engine_vars>>

\* no validator or engine call is in progress
CoreIdle ==
    /\ config = DEFAULT_CONFIG
    /\ input_text = <<>> /\ output_text = <<>>
    /\ validation = Pending
    /\ loaded = FALSE /\ model_exists = FALSE /\ caller_text = <<>>
    /\ EngineIdle

InitSentences ==
    /\ CoreIdle
    /\ sentence_text \in SentenceTexts
    /\ sentence_count = NotCounted
    /\ WordIdle
    /\ CorruptSentenceIdle
    /\ TrainingIdle
    /\ ToolsIdle

CountSentences ==
    /\ sentence_count = NotCounted
    /\ sentence_count' = count_sentences(sentence_text)
    /\ UNCHANGED <<core_vars, sentence_text, word_vars, csent_vars, td_vars, tool_vars>>

NextSentences == CountSentences

SpecSentences == InitSentences /\ [][NextSentences]_vars

\* ------------------------------------------------ claims on count_sentences
Counted == sentence_count # NotCounted

HasTerminal(t) == \E i \in 1..Len(t) : IsTerminal(t[i])

\* maximal runs of . ! ? in t
TerminalRuns(t) ==
    {i \in 1..Len(t) : IsTerminal(t[i]) /\ (i = 1 \/ ~IsTerminal(t[i-1]))}

\* capitalized words that follow a space in t
CapitalizedAfterSpace(t) ==
    {i \in 2..Len(t) : IsUpper(t[i]) /\ IsSpace(t[i-1])}

\* C11: count_sentences returns the number of runs of terminal punctuation
\* when the text has any; without terminal punctuation it counts the
\* capitalized-word-after-space patterns, so a punctuation-free text with
\* several capitalized words after spaces yields more than 1; the result is
\* always at least 1.
C11_FallbackCountsCapitalizedWords ==
    Counted =>
        /\ sentence_count >= 1
        /\ HasTerminal(sentence_text) =>
               sentence_count = Cardinality(TerminalRuns(sentence_text))
        /\ (/\ ~HasTerminal(sentence_text)
            /\ Cardinality(CapitalizedAfterSpace(sentence_text)) >= 2) =>
               sentence_count > 1

\* ------------------------------------------------ claims on the garbled check
PassesEarlierChecks ==
    ~FailsEmpty /\ ~FailsConversational /\ ~FailsLength /\ ~FailsSentences

OutLower == lower(OutClean)

\* starts of the maximal runs of consonants of OutLower that are 4 or longer
ConsonantRuns ==
    {i \in 1..Len(OutLower) :
        /\ IsConsonant(OutLower[i])
        /\ (i = 1 \/ ~IsConsonant(OutLower[i-1]))
        /\ i + 3 <= Len(OutLower)
        /\ \A k \in i..(i+3) : IsConsonant(OutLower[k])}

\* the words of OutLower, as <<first, last>> positions of the maximal runs
\* of word characters
Words ==
    {w \in (1..Len(OutLower)) \X (1..Len(OutLower)) :
        /\ w[1] <= w[2]
        /\ \A k \in w[1]..w[2] : IsWordChar(OutLower[k])
        /\ (w[1] = 1 \/ ~IsWordChar(OutLower[w[1]-1]))
        /\ (w[2] = Len(OutLower) \/ ~IsWordChar(OutLower[w[2]+1]))}

ConsonantWords ==
    {w \in Words : /\ w[2] - w[1] + 1 >= 4
                   /\ \A k \in w[1]..w[2] : IsConsonant(OutLower[k])}

\* C12 as stated: a candidate that passes the earlier checks is rejected as
\* "output still garbled" exactly when it holds more than 2 runs of 4 or
\* more consecutive consonants, wherever the runs occur.
C12_GarbledCountsRunsAnywhere ==
    Called =>
        ((Kind = "output still garbled") <=>
            (PassesEarlierChecks /\ Cardinality(ConsonantRuns) > 2))

\* C12: a candidate that passes the earlier checks is rejected as "output
\* still garbled" exactly when more than 2 of its words consist only of
\* consonants and are 4 or more characters long; consonants inside a word
\* that holds any other word character do not count.
C12_GarbledCountsConsonantWords ==
    Called =>
        ((Kind = "output still garbled") <=>
            (PassesEarlierChecks /\ Cardinality(ConsonantWords) > 2))

\* rejected as garbled on three consonant words, one of them in upper case
C12_Witness ==
    /\ Called
    /\ Kind = "output still garbled"
    /\ Cardinality(ConsonantWords) = 3
    /\ \E i \in 1..Len(OutClean) : IsUpper(OutClean[i])

\* --------------------------------------------------- claims on the confidence
\* the sentence-match score in tenths: 1.0 on equal counts, 0.7 otherwise
SentenceScore10 == IF SentenceDiff = 0 THEN 10 ELSE 7

\* C13: an accepted result carries the average of the length-closeness score
\* 1 - 0.5*|1 - ratio|, ratio = len(candidate)/len(original) on the stripped
\* strings, and the sentence-match score (1.0 on equal sentence counts, 0.7
\* otherwise); every rejected result carries confidence 0.0.  With n/d the
\* confidence, li and lo the two lengths and s the sentence score in tenths,
\* n/d = ((2li - |li - lo|)/(2li) + s/10)/2 is n*40*li = d*(10*(2li - |li - lo|)
\* + s*2*li).  An empty original has no ratio; the length score is then 0.5.
C13_ConfidenceIsAverageOfScores ==
    Called =>
        LET n  == validation.confidence[1]
            d  == validation.confidence[2]
            li == Len(InClean)
            lo == Len(OutClean)
        IN  /\ d > 0
            /\ ~validation.is_valid => n = 0
            /\ validation.is_valid /\ li > 0 =>
                   n * 40 * li =
                       d * (10 * (2 * li - Abs(li - lo)) + SentenceScore10 * 2 * li)
            /\ validation.is_valid /\ li = 0 =>
                   n * 20 = d * (5 + SentenceScore10)

\* accepted with a ratio other than 1 and unequal sentence counts
C13_Witness ==
    /\ Called
    /\ validation.is_valid
    /\ Len(InClean) > 0
    /\ Len(InClean) # Len(OutClean)
    /\ SentenceDiff # 0

\* C14: the confidence of every ValidationResult lies in [0,1], for every
\* pair of strings (an empty original included) and every configuration of
\* length_ratio_min, length_ratio_max and sentence_tolerance.
C14_ConfidenceInUnitInterval ==
    Called =>
        /\ validation.confidence[2] > 0
        /\ 0 <= validation.confidence[1]
        /\ validation.confidence[1] <= validation.confidence[2]

\* ---------------------------------- keyboard geometry (generate_fuzzy_training)
\* QWERTY layout with physical positions (row, col)
QWERTY_POS ==
    ("q" :> <<0,0>>) @@ ("w" :> <<0,1>>) @@ ("e" :> <<0,2>>) @@ ("r" :> <<0,3>>) @@
    ("t" :> <<0,4>>) @@ ("y" :> <<0,5>>) @@ ("u" :> <<0,6>>) @@ ("i" :> <<0,7>>) @@
    ("o" :> <<0,8>>) @@ ("p" :> <<0,9>>) @@
    ("a" :> <<1,0>>) @@ ("s" :> <<1,1>>) @@ ("d" :> <<1,2>>) @@ ("f" :> <<1,3>>) @@
    ("g" :> <<1,4>>) @@ ("h" :> <<1,5>>) @@ ("j" :> <<1,6>>) @@ ("k" :> <<1,7>>) @@
    ("l" :> <<1,8>>) @@
    ("z" :> <<2,0>>) @@ ("x" :> <<2,1>>) @@ ("c" :> <<2,2>>) @@ ("v" :> <<2,3>>) @@
    ("b" :> <<2,4>>) @@ ("n" :> <<2,5>>) @@ ("m" :> <<2,6>>)

\* the keys in the iteration order of the QWERTY_POS dict
QwertyOrder ==
    <<"q","w","e","r","t","y","u","i","o","p",
      "a","s","d","f","g","h","j","k","l",
      "z","x","c","v","b","n","m">>

\* Same-finger key pairs: the dict literal repeats the keys d, f, s and j,
\* and the value written last is the one the dict keeps
SAME_FINGER_PAIRS ==
    ("e" :> "d") @@ ("d" :> "c") @@ ("c" :> "d") @@
    ("r" :> "f") @@ ("f" :> "v") @@ ("v" :> "f") @@
    ("w" :> "s") @@ ("s" :> "x") @@ ("x" :> "s") @@
    ("u" :> "j") @@ ("j" :> "m") @@ ("m" :> "j") @@
    ("i" :> "k") @@ ("k" :> "i") @@
    ("o" :> "l") @@ ("l" :> "o")

\* Common muscle memory errors: word -> list of misspellings
MUSCLE_MEMORY_ERRORS ==
    (<<"t","h","e">> :>
        <<<<"t","e","h">>, <<"h","t","e">>, <<"t","h">>, <<"t","h","w">>>>) @@
    (<<"t","h","a","t">> :>
        <<<<"t","a","h","t">>, <<"t","a","t","h">>, <<"h","t","a","t">>>>) @@
    (<<"t","h","i","s">> :>
        <<<<"t","i","h","s">>, <<"t","h","s","i">>, <<"h","t","i","s">>>>) @@
    (<<"h","a","v","e">> :>
        <<<<"h","v","a","e">>, <<"a","h","v","e">>, <<"h","v","e">>>>) @@
    (<<"w","i","t","h">> :>
        <<<<"w","i","h","t">>, <<"w","t","i","h">>, <<"i","w","t","h">>>>) @@
    (<<"f","r","o","m">> :>
        <<<<"f","o","r","m">>, <<"f","o","m","r">>, <<"f","r","m","o">>>>) @@
    (<<"t","h","e","y">> :>
        <<<<"t","e","h","y">>, <<"t","h","y","e">>, <<"h","t","e","y">>>>) @@
    (<<"w","h","a","t">> :>
        <<<<"w","a","h","t">>, <<"w","h","t","a">>, <<"h","w","a","t">>>>) @@
    (<<"y","o","u","r">> :>
        <<<<"y","o","r","u">>, <<"y","u","o","r">>, <<"o","y","u","r">>>>) @@
    (<<"j","u","s","t">> :>
        <<<<"j","s","u","t">>, <<"j","u","t","s">>, <<"u","j","s","t">>>>) @@
    (<<"b","e","e","n">> :>
        <<<<"e","b","e","n">>, <<"b","e","n","e">>, <<"b","e","n","n">>>>) @@
    (<<"w","o","u","l","d">> :>
        <<<<"w","o","u","d","l">>, <<"o","w","u","l","d">>, <<"w","u","o","l","d">>>>) @@
    (<<"c","o","u","l","d">> :>
        <<<<"c","o","u","d","l">>, <<"c","u","o","l","d">>, <<"c","o","l","u","d">>>>) @@
    (<<"s","h","o","u","l","d">> :>
        <<<<"s","h","o","u","d","l">>, <<"s","h","u","o","l","d">>, <<"s","h","o","l","d">>>>) @@
    (<<"a","b","o","u","t">> :>
        <<<<"a","b","u","o","t">>, <<"a","b","o","t","u">>, <<"b","a","o","u","t">>>>) @@
    (<<"t","h","e","r","e">> :>
        <<<<"t","e","h","r","e">>, <<"t","h","e","e","r">>, <<"h","t","e","r","e">>>>) @@
    (<<"t","h","e","i","r">> :>
        <<<<"t","h","i","e","r">>, <<"t","e","i","r">>, <<"t","e","h","i","r">>>>) @@
    (<<"w","h","i","c","h">> :>
        <<<<"w","h","i","h","c">>, <<"w","i","h","c","h">>, <<"h","w","i","c","h">>>>) @@
    (<<"t","h","i","n","k">> :>
        <<<<"t","h","n","k">>, <<"t","h","i","k","n">>, <<"h","t","i","n","k">>>>) @@
    (<<"p","e","o","p","l","e">> :>
        <<<<"p","o","e","p","l","e">>, <<"p","e","o","p","e","l">>, <<"p","e","p","o","l","e">>>>) @@
    (<<"b","e","c","a","u","s","e">> :>
        <<<<"b","e","c","u","a","s","e">>, <<"b","e","c","a","s","u","e">>, <<"b","e","a","c","u","s","e">>>>) @@
    (<<"t","h","r","o","u","g","h">> :>
        <<<<"t","h","o","r","u","g","h">>, <<"t","h","r","o","u","h","g">>, <<"t","r","h","o","u","g","h">>>>) @@
    (<<"b","e","f","o","r","e">> :>
        <<<<"b","e","f","r","o","e">>, <<"b","e","o","f","r","e">>, <<"b","f","o","r","e">>>>) @@
    (<<"a","f","t","e","r">> :>
        <<<<"a","f","t","r","e">>, <<"a","t","f","e","r">>, <<"a","f","e","t","r">>>>) @@
    (<<"s","o","m","e","t","h","i","n","g">> :>
        <<<<"s","o","m","e","h","t","i","n","g">>, <<"s","o","m","t","h","i","n","g">>, <<"s","o","e","m","t","h","i","n","g">>>>) @@
    (<<"d","i","f","f","e","r","e","n","t">> :>
        <<<<"d","i","f","f","e","r","n","e","t">>, <<"d","i","f","e","r","e","n","t">>, <<"d","i","f","e","r","r","e","n","t">>>>)

\* get_adjacent_keys: the keys within one row and one column of char, in the
\* order the loops of lines 82-86 append them (row by row, left to right)
\* range(a, b) as a list
range(a, b) == [i \in 1..Max(0, b - a) |-> a + i - 1]

RECURSIVE Flatten(_)
Flatten(lists) ==
    IF lists = <<>> THEN <<>> ELSE Head(lists) \o Flatten(Tail(lists))

\* lines 84-86: the keys at (r, c) other than char, in the order of the dict
keys_at(char, r, c) ==
    SelectSeq(QwertyOrder,
              LAMBDA k : QWERTY_POS[k][1] = r /\ QWERTY_POS[k][2] = c /\ k # char)

\* lines 82-86: the loops over the rows, then the columns
keys_in(char, rows, cols) ==
    Flatten([i \in 1..Len(rows) |->
                Flatten([j \in 1..Len(cols) |->
                            keys_at(char, rows[i], cols[j])])])

\* as get_adjacent_keys, with the row below left out: range(row-1, row+1)
get_adjacent_keys_above(char) ==
    IF char \notin DOMAIN QWERTY_POS THEN <<char>>
    ELSE LET row == QWERTY_POS[char][1]
             col == QWERTY_POS[char][2]
             adjacent == keys_in(char,
                                 range(Max(0, row - 1), Min(3, row + 1)),
                                 range(Max(0, col - 1), Min(10, col + 2)))
         IN  IF adjacent # <<>> THEN adjacent ELSE <<char>>

get_adjacent_keys(char) ==
    IF char \notin DOMAIN QWERTY_POS THEN <<char>>
    ELSE LET row == QWERTY_POS[char][1]
             col == QWERTY_POS[char][2]
             adjacent == keys_in(char,
                                 range(Max(0, row - 1), Min(3, row + 2)),
                                 range(Max(0, col - 1), Min(10, col + 2)))
         IN  IF adjacent # <<>> THEN adjacent ELSE <<char>>

AdjacentKeys == [k \in DOMAIN QWERTY_POS |-> get_adjacent_keys(k)]

\* random.choice(adj): the first MaxNeighbours entries of the list are drawn
adjacent_choices(k) ==
    LET adj == AdjacentKeys[k]
    IN  {adj[i] : i \in 1..Min(Len(adj), MaxNeighbours)}

\* ------------------------------ corruption operators (generate_fuzzy_training)
\* An operator is the set of the strings it can return over all outcomes of
\* its random draws.  A probability p is given in hundredths; the branch
\* `random.random() < p` can be taken when p > 0 and skipped when p < 100.
Letters == UpperSet \cup LowerSet

isalpha(word) == word # <<>> /\ \A i \in 1..Len(word) : word[i] \in Letters

\* replacement.upper() if c.isupper() else replacement
CasePreserve(c, replacement) ==
    IF IsUpper(c) THEN UpperChar(replacement) ELSE replacement

CanHit(p) == p > 0
CanMiss(p) == p < 100

\* the strings that replace each character c of word by a member of
\* choices[c], a character outside the domain of choices staying as it is
RECURSIVE Substitute(_, _)
Substitute(word, choices) ==
    IF word = <<>> THEN {<<>>}
    ELSE LET c == Head(word)
             cs == IF c \in DOMAIN choices THEN choices[c] ELSE {c}
         IN  {<<x>> \o r : x \in cs, r \in Substitute(Tail(word), choices)}

\* the intensities the operators are called with: the default 0.3, the floor
\* repair's 0.5 and the four levels'
Intensities == {20, 30, 35, 50, 70}

AdjacentChoices ==
    [p \in Intensities |->
        [c \in {x \in Letters : LowerChar(x) \in DOMAIN QWERTY_POS} |->
            (IF CanMiss(p) THEN {c} ELSE {}) \cup
            (IF CanHit(p)
                THEN {CasePreserve(c, a) : a \in adjacent_choices(LowerChar(c))}
                ELSE {})]]

corrupt_adjacent(word, intensity) == Substitute(word, AdjacentChoices[intensity])

keys_by_row ==
    << <<"q","w","e","r","t","y","u","i","o","p">>,
       <<"a","s","d","f","g","h","j","k","l">>,
       <<"z","x","c","v","b","n","m">> >>

\* shift_map of corrupt_hand_shift for shift -1 or 1
shift_map(shift) ==
    [key \in UNION {Range(keys_by_row[r]) : r \in 1..3} |->
        LET row == keys_by_row[CHOOSE r \in 1..3 : key \in Range(keys_by_row[r])]
            i == CHOOSE j \in 1..Len(row) : row[j] = key
            new_idx == i + shift
        IN  IF 1 <= new_idx /\ new_idx <= Len(row) THEN row[new_idx] ELSE key]

ShiftChoices ==
    [shift \in {-1, 1} |->
        [c \in {x \in Letters : LowerChar(x) \in DOMAIN shift_map(shift)} |->
            {c, CasePreserve(c, shift_map(shift)[LowerChar(c)])}]]

corrupt_hand_shift(word) ==
    IF Len(word) < 3 THEN {word}
    ELSE UNION {Substitute(word, ShiftChoices[shift]) : shift \in {-1, 1}}

\* result.insert(idx, result[idx]) for idx = random.randint(0, len(result)-1)
DoubleTaps(r) ==
    IF Len(r) > 1
        THEN {SubSeq(r, 1, idx) \o SubSeq(r, idx, Len(r)) : idx \in 1..Len(r)}
        ELSE {r}

corrupt_double_tap(word) ==
    IF Len(word) < 2 THEN {word}
    ELSE LET once == DoubleTaps(word)
         IN  once \cup UNION {DoubleTaps(r) : r \in once}

\* the characters of word that pass `random.random() > intensity`
RECURSIVE Kept(_, _)
Kept(word, intensity) ==
    IF word = <<>> THEN {<<>>}
    ELSE LET rest == Kept(Tail(word), intensity)
         IN  rest \cup (IF CanMiss(intensity)
                           THEN {<<Head(word)>> \o r : r \in rest}
                           ELSE {})

corrupt_skip(word, intensity) ==
    IF Len(word) < 3 THEN {word}
    ELSE {IF r = <<>> THEN word ELSE r : r \in Kept(word, intensity)}

\* result[idx], result[idx + 1] = result[idx + 1], result[idx], idx from 1
Swap(r, idx) ==
    [k \in 1..Len(r) |->
        IF k = idx THEN r[idx + 1] ELSE IF k = idx + 1 THEN r[idx] ELSE r[k]]

RECURSIVE Transposed(_, _)
Transposed(word, swaps) ==
    IF swaps = 0 THEN {word}
    ELSE UNION {{Swap(r, idx) : idx \in 1..(Len(r) - 1)} :
                    r \in Transposed(word, swaps - 1)}

corrupt_transpose(word) ==
    IF Len(word) < 2 THEN {word}
    ELSE UNION {Transposed(word, swaps) :
                    swaps \in 1..Max(1, Len(word) \div 3)}

\* result[i] = '' followed by ''.join(result)
RemoveAt(r, i) == SubSeq(r, 1, i - 1) \o SubSeq(r, i + 1, Len(r))

FirstOf(S) == CHOOSE i \in S : \A j \in S : i <= j

corrupt_same_finger(word) ==
    IF Len(word) < 3 THEN {word}
    ELSE LET pairs == {i \in 1..(Len(word) - 1) :
                          /\ LowerChar(word[i]) \in DOMAIN SAME_FINGER_PAIRS
                          /\ SAME_FINGER_PAIRS[LowerChar(word[i])] =
                                 LowerChar(word[i + 1])}
         IN  IF pairs = {} THEN {word}
             ELSE {Swap(word, FirstOf(pairs)), RemoveAt(word, FirstOf(pairs))}

corrupt_rhythm_error(word) ==
    LET doubles == {i \in 1..(Len(word) - 1) : word[i] = word[i + 1]}
    IN  IF doubles # {}
            THEN {word, RemoveAt(word, FirstOf(doubles))}
            ELSE {word} \cup
                 (IF Len(word) > 2
                     THEN {SubSeq(word, 1, idx) \o <<word[idx]>> \o
                               SubSeq(word, idx + 1, Len(word)) :
                                   idx \in 1..(Len(word) - 1)}
                     ELSE {})

vowels == {"a","e","i","o","u","A","E","I","O","U"}

RECURSIVE VowelDrops(_, _, _, _)
VowelDrops(word, dropped, vowel_count, intensity) ==
    IF word = <<>> THEN {<<>>}
    ELSE LET c == Head(word)
             droppable == c \in vowels /\ dropped < vowel_count - 1
             drop == IF droppable /\ CanHit(intensity)
                        THEN VowelDrops(Tail(word), dropped + 1, vowel_count,
                                        intensity)
                        ELSE {}
             keep == IF ~droppable \/ CanMiss(intensity)
                        THEN {<<c>> \o r :
                                 r \in VowelDrops(Tail(word), dropped,
                                                  vowel_count, intensity)}
                        ELSE {}
         IN  drop \cup keep

\* as corrupt_vowel_drop, with dropped < vowel_count as the guard
corrupt_vowel_drop_all(word, intensity) ==
    LET vowel_count == Cardinality({i \in 1..Len(word) : word[i] \in vowels})
    IN  {IF r = <<>> THEN word ELSE r :
            r \in VowelDrops(word, 0, vowel_count + 1, intensity)}

corrupt_vowel_drop(word, intensity) ==
    LET vowel_count == Cardinality({i \in 1..Len(word) : word[i] \in vowels})
    IN  {IF r = <<>> THEN word ELSE r :
            r \in VowelDrops(word, 0, vowel_count, intensity)}

drift_up ==
    ("a" :> "q") @@ ("s" :> "w") @@ ("d" :> "e") @@ ("f" :> "r") @@ ("g" :> "t") @@
    ("h" :> "y") @@ ("j" :> "u") @@ ("k" :> "i") @@ ("l" :> "o")
drift_down ==
    ("a" :> "z") @@ ("s" :> "x") @@ ("d" :> "c") @@ ("f" :> "v") @@ ("g" :> "b") @@
    ("h" :> "n") @@ ("j" :> "m")

DriftChoices ==
    [drift \in {drift_up, drift_down} |->
        [c \in {x \in Letters : LowerChar(x) \in DOMAIN drift} |->
            {c, CasePreserve(c, drift[LowerChar(c)])}]]

corrupt_home_row_drift(word) ==
    UNION {Substitute(word, DriftChoices[drift]) :
              drift \in {drift_up, drift_down}}

corrupt_muscle_memory(word) ==
    LET word_lower == lower(word)
    IN  IF word_lower \in DOMAIN MUSCLE_MEMORY_ERRORS
            THEN {IF IsUpper(word[1])
                      THEN <<UpperChar(corrupted[1])>> \o Tail(corrupted)
                      ELSE corrupted :
                          corrupted \in Range(MUSCLE_MEMORY_ERRORS[word_lower])}
            ELSE {word}

\* ----------------------------- corruption policy (generate_fuzzy_training)
\* the operators corrupt_word draws from at a level; every weight is positive
operations(lv) ==
    IF lv = EXTREME
        THEN {"corrupt_hand_shift", "corrupt_vowel_drop", "corrupt_skip",
              "corrupt_adjacent", "corrupt_transpose"}
    ELSE IF lv = HEAVY
        THEN {"corrupt_vowel_drop", "corrupt_adjacent", "corrupt_transpose",
              "corrupt_skip", "corrupt_same_finger", "corrupt_rhythm_error",
              "corrupt_home_row_drift"}
    ELSE IF lv = MEDIUM
        THEN {"corrupt_adjacent", "corrupt_transpose", "corrupt_rhythm_error",
              "corrupt_same_finger", "corrupt_skip", "corrupt_double_tap"}
    ELSE {"corrupt_transpose", "corrupt_adjacent", "corrupt_rhythm_error",
          "corrupt_same_finger"}

\* result = op(result, level.intensity) or result = op(result)
apply_op(op, r, lv) ==
    CASE op = "corrupt_adjacent"       -> corrupt_adjacent(r, lv.intensity)
      [] op = "corrupt_skip"           -> corrupt_skip(r, lv.intensity)
      [] op = "corrupt_vowel_drop"     -> corrupt_vowel_drop(r, lv.intensity)
      [] op = "corrupt_hand_shift"     -> corrupt_hand_shift(r)
      [] op = "corrupt_transpose"      -> corrupt_transpose(r)
      [] op = "corrupt_same_finger"    -> corrupt_same_finger(r)
      [] op = "corrupt_rhythm_error"   -> corrupt_rhythm_error(r)
      [] op = "corrupt_home_row_drift" -> corrupt_home_row_drift(r)
      [] op = "corrupt_double_tap"     -> corrupt_double_tap(r)

\* the floor at a third of the length instead of 40%
below_floor_third(w, r) == 3 * Len(r) < Len(w)

\* len(result) < len(word) * 0.4
below_floor(w, r) == 5 * Len(r) < 2 * Len(w)

\* "Prevent complete destruction - keep at least 40% of original length"
floor_repair(w, r) ==
    IF below_floor(w, r) THEN corrupt_adjacent(w, 50) ELSE {r}

\* the strings after n iterations of the operator loop of corrupt_word
RECURSIVE after_operations(_, _, _)
after_operations(w, lv, n) ==
    IF n = 0 THEN {w}
    ELSE UNION {UNION {apply_op(op, r, lv) : op \in operations(lv)} :
                   r \in after_operations(w, lv, n - 1)}

\* corrupt_word as a function: every string a call can return
corrupt_word(w, lv) ==
    IF Len(w) < 2 \/ ~isalpha(w) THEN {w}
    ELSE (IF lower(w) \in DOMAIN MUSCLE_MEMORY_ERRORS
             THEN corrupt_muscle_memory(w) ELSE {})
         \cup UNION {floor_repair(w, r) :
                        r \in after_operations(w, lv, lv.operations)}

\* ------------------------------------------------ corrupt_word as a machine
Go_   == <<"g","o">>
The_  == <<"T","h","e">>
Seed_ == <<"s","e","e","d">>
Ay_   == <<"a">>
N42_  == <<"4","2">>
Dots_ == <<".",".",".">>
THE_  == <<"T","H","E">>

FuzzyWords == {<<>>, Ay_, N42_, Dots_, Go_, The_, THE_, Seed_}

InitCorruptWord ==
    /\ CoreIdle
    /\ SentencesIdle
    /\ word_arg \in FuzzyWords
    /\ level_arg \in Levels
    /\ word_pc = "enter"
    /\ ops_done = 0
    /\ ops_result = <<>>
    /\ word_result = <<>>
    /\ CorruptSentenceIdle
    /\ TrainingIdle
    /\ ToolsIdle

\* lines 354-355: a word too short or not alphabetic is returned as it is
corrupt_word_unchanged ==
    /\ word_pc = "enter"
    /\ Len(word_arg) < 2 \/ ~isalpha(word_arg)
    /\ word_result' = word_arg
    /\ word_pc' = "returned"
    /\ UNCHANGED <<core_vars, sentence_vars, csent_vars, td_vars, tool_vars,
                 word_arg, level_arg, ops_done, ops_result>>

\* lines 358-359: a word of the table, with probability 0.6
corrupt_word_muscle_memory ==
    /\ word_pc = "enter"
    /\ ~(Len(word_arg) < 2 \/ ~isalpha(word_arg))
    /\ lower(word_arg) \in DOMAIN MUSCLE_MEMORY_ERRORS
    /\ word_result' \in corrupt_muscle_memory(word_arg)
    /\ word_pc' = "returned"
    /\ UNCHANGED <<core_vars, sentence_vars, csent_vars, td_vars, tool_vars,
                 word_arg, level_arg, ops_done, ops_result>>

\* lines 362-402: result = word, the operator list of the level is chosen
corrupt_word_begin ==
    /\ word_pc = "enter"
    /\ ~(Len(word_arg) < 2 \/ ~isalpha(word_arg))
    /\ word_result' = word_arg
    /\ word_pc' = "operations"
    /\ UNCHANGED <<core_vars, sentence_vars, csent_vars, td_vars, tool_vars,
                 word_arg, level_arg, ops_done, ops_result>>

\* lines 404-412: one iteration of the operator loop
corrupt_word_operation ==
    /\ word_pc = "operations"
    /\ ops_done < level_arg.operations
    /\ \E op \in operations(level_arg) :
          word_result' \in apply_op(op, word_result, level_arg)
    /\ ops_done' = ops_done + 1
    /\ UNCHANGED <<core_vars, sentence_vars, csent_vars, td_vars, tool_vars,
                 word_arg, level_arg, word_pc, ops_result>>

\* lines 414-418: the floor on the length, then return
corrupt_word_return ==
    /\ word_pc = "operations"
    /\ ops_done = level_arg.operations
    /\ ops_result' = word_result
    /\ word_result' \in floor_repair(word_arg, word_result)
    /\ word_pc' = "returned"
    /\ UNCHANGED <<core_vars, sentence_vars, csent_vars, td_vars, tool_vars,
                 word_arg, level_arg, ops_done>>

NextCorruptWord ==
    \/ corrupt_word_unchanged
    \/ corrupt_word_muscle_memory
    \/ corrupt_word_begin
    \/ corrupt_word_operation
    \/ corrupt_word_return

SpecCorruptWord == InitCorruptWord /\ [][NextCorruptWord]_vars

\* -------------------------------------------------- claims on corrupt_word
WordReturned == word_pc = "returned"

\* the operator loop of corrupt_word ran to its end
RanOperations == WordReturned /\ ops_done = level_arg.operations

\* C15 as stated: for an alphabetic word of 2 or more characters and every
\* level, the string corrupt_word returns is between 0.4 and 2 times as long
\* as the word; a result of the operators below 40% of the word's length is
\* replaced by one adjacent-substitution pass over the word.
C15_LengthWithinFloorAndDouble ==
    WordReturned /\ Len(word_arg) >= 2 /\ isalpha(word_arg) =>
        /\ 5 * Len(word_result) >= 2 * Len(word_arg)
        /\ Len(word_result) <= 2 * Len(word_arg)
        /\ RanOperations /\ 5 * Len(ops_result) < 2 * Len(word_arg) =>
               word_result \in corrupt_adjacent(word_arg, 50)

\* C15: for an alphabetic word of 2 or more characters and every level, the
\* string corrupt_word returns is at least 0.4 times as long as the word and
\* at most 4 characters longer (2 characters at HEAVY, 1 at LIGHT, none at
\* EXTREME); it exceeds twice the length only for words of 2 or 3 characters
\* at MEDIUM.  A result of the operators below 40% of the word's length is
\* replaced by one adjacent-substitution pass over the word, which keeps the
\* word's length and each character or a key next to it.
C15_LengthWithinFloorAndFourMore ==
    WordReturned /\ Len(word_arg) >= 2 /\ isalpha(word_arg) =>
        /\ 5 * Len(word_result) >= 2 * Len(word_arg)
        /\ Len(word_result) <= Len(word_arg) +
               (CASE level_arg = LIGHT -> 1 [] level_arg = MEDIUM -> 4
                  [] level_arg = HEAVY -> 2 [] level_arg = EXTREME -> 0)
        /\ Len(word_result) > 2 * Len(word_arg) =>
               level_arg = MEDIUM /\ Len(word_arg) <= 3
        /\ RanOperations /\ 5 * Len(ops_result) < 2 * Len(word_arg) =>
               /\ Len(word_result) = Len(word_arg)
               /\ \A i \in 1..Len(word_arg) :
                     \/ word_result[i] = word_arg[i]
                     \/ \E k \in DOMAIN QWERTY_POS :
                           /\ UpperChar(k) = UpperChar(word_result[i])
                           /\ IsUpper(word_result[i]) = IsUpper(word_arg[i])
                           /\ Abs(QWERTY_POS[k][1] -
                                  QWERTY_POS[LowerChar(word_arg[i])][1]) <= 1
                           /\ Abs(QWERTY_POS[k][2] -
                                  QWERTY_POS[LowerChar(word_arg[i])][2]) <= 1

\* the operators left less than 40% of the word, which the floor repaired
C15_Witness ==
    /\ WordReturned /\ word_arg = The_ /\ level_arg = MEDIUM
    /\ RanOperations
    /\ 5 * Len(ops_result) < 2 * Len(word_arg)
    /\ word_result # word_arg

\* ------------------------- sentence-level policy (generate_fuzzy_training)
\* str.split(): the maximal runs of non-whitespace characters
RECURSIVE split(_)
split(s) ==
    IF s = <<>> THEN <<>>
    ELSE IF IsSpace(Head(s)) THEN split(Tail(s))
    ELSE LET stops == {j \in 1..Len(s) : IsSpace(s[j])}
             end == IF stops = {} THEN Len(s) + 1 ELSE FirstOf(stops)
         IN  <<SubSeq(s, 1, end - 1)>> \o split(SubSeq(s, end, Len(s)))

\* ' '.join(words)
RECURSIVE join(_)
join(words) ==
    IF words = <<>> THEN <<>>
    ELSE IF Len(words) = 1 THEN words[1]
    ELSE words[1] \o <<" ">> \o join(Tail(words))

\* result[idx] = result[idx] + result[idx + 1]; del result[idx + 1], idx from 1
Merge(r, idx) ==
    SubSeq(r, 1, idx - 1) \o <<r[idx] \o r[idx + 1]>> \o SubSeq(r, idx + 2, Len(r))

RECURSIVE Merged(_, _)
Merged(words, n) ==
    IF n = 0 THEN {words}
    ELSE UNION {{Merge(r, idx) : idx \in 1..(Len(r) - 1)} :
                    r \in Merged(words, n - 1)}

\* as corrupt_run_together, with up to 3 spaces removed
corrupt_run_together_three(words) ==
    IF Len(words) < 2 THEN {join(words)}
    ELSE {join(r) : r \in UNION {Merged(words, n) :
                                    n \in 1..Min(3, Len(words) - 1)}}

corrupt_run_together(words) ==
    IF Len(words) < 2 THEN {join(words)}
    ELSE {join(r) : r \in UNION {Merged(words, n) :
                                    n \in 1..Min(2, Len(words) - 1)}}

corrupt_split(w) ==
    IF Len(w) < 4 THEN {w}
    ELSE {SubSeq(w, 1, split_point) \o <<" ">> \o
              SubSeq(w, split_point + 1, Len(w)) :
                  split_point \in 2..(Len(w) - 2)}

\* num_corrupt with the minimum of MEDIUM raised to 3
num_corrupt_medium3(n, lv) ==
    IF lv = LIGHT THEN Max(1, (n * 2) \div 10)
    ELSE IF lv = MEDIUM THEN Max(3, (n * 4) \div 10)
    ELSE IF lv = HEAVY THEN Max(2, (n * 6) \div 10)
    ELSE Max(3, (n * 8) \div 10)

\* num_corrupt of LIGHT rounded to the nearest integer instead of truncated
num_corrupt_rounded(n, lv) ==
    IF lv = LIGHT THEN Max(1, (n * 2 + 5) \div 10)
    ELSE IF lv = MEDIUM THEN Max(1, (n * 4) \div 10)
    ELSE IF lv = HEAVY THEN Max(2, (n * 6) \div 10)
    ELSE Max(3, (n * 8) \div 10)

\* num_corrupt for a sentence of n words: int(n * 0.2) and so on truncate
num_corrupt(n, lv) ==
    IF lv = LIGHT THEN Max(1, (n * 2) \div 10)
    ELSE IF lv = MEDIUM THEN Max(1, (n * 4) \div 10)
    ELSE IF lv = HEAVY THEN Max(2, (n * 6) \div 10)
    ELSE Max(3, (n * 8) \div 10)

\* random.sample(range(n), k) as the set of the indices drawn (from 0)
sample(n, k) == {S \in SUBSET (0..(n - 1)) : Cardinality(S) = k}

\* --------------------------------------------- corrupt_sentence as a machine
I_ == <<"I">>

RECURSIVE Repeat(_, _)
Repeat(w, n) == IF n = 0 THEN <<>> ELSE <<w>> \o Repeat(w, n - 1)

\* sentences of one-character words, which corrupt_word leaves alone
PlainSentences == {join(Repeat(I_, n)) : n \in 0..MaxSentenceWords}

\* sentences of up to MaxMixedWords words, one of which corrupt_word can
\* change
MixedSentences ==
    {join(Repeat(I_, j) \o <<Go_>> \o Repeat(I_, k)) :
        <<j, k>> \in {p \in (0..MaxMixedWords) \X (0..MaxMixedWords) :
                         p[1] + p[2] + 1 <= MaxMixedWords}}

CorruptSentences == PlainSentences \cup MixedSentences \cup {<<" ">>}

InitCorruptSentence ==
    /\ CoreIdle
    /\ SentencesIdle
    /\ word_arg = <<>> /\ word_pc = "idle"
    /\ ops_done = 0 /\ ops_result = <<>> /\ word_result = <<>>
    /\ level_arg \in Levels
    /\ sentence_arg \in CorruptSentences
    /\ sent_pc = "enter"
    /\ split_words = <<>>
    /\ corrupt_indices = {}
    /\ sent_result = <<>>
    /\ sent_returned = <<>>
    /\ TrainingIdle
    /\ ToolsIdle

csent_frame ==
    UNCHANGED <<core_vars, sentence_vars, word_vars, td_vars, tool_vars,
               sentence_arg>>

\* lines 423-436: split the sentence, draw the words to corrupt
corrupt_sentence_select ==
    /\ sent_pc = "enter"
    /\ split_words' = split(sentence_arg)
    /\ LET n == Len(split(sentence_arg))
       IN  corrupt_indices' \in sample(n, Min(num_corrupt(n, level_arg), n))
    /\ sent_pc' = "words"
    /\ UNCHANGED <<sent_result, sent_returned>>
    /\ csent_frame

\* lines 439-443: one iteration of the loop over the words
corrupt_sentence_word ==
    /\ sent_pc = "words"
    /\ Len(sent_result) < Len(split_words)
    /\ LET i == Len(sent_result)
           w == split_words[i + 1]
       IN  IF i \in corrupt_indices
               THEN \E r \in corrupt_word(w, level_arg) :
                        sent_result' = Append(sent_result, r)
               ELSE sent_result' = Append(sent_result, w)
    /\ UNCHANGED <<sent_pc, split_words, corrupt_indices, sent_returned>>
    /\ csent_frame

\* lines 446-447: at HEAVY and EXTREME the words may be run together
corrupt_sentence_run_together ==
    /\ sent_pc = "words"
    /\ Len(sent_result) = Len(split_words)
    /\ \/ sent_result' = sent_result
       \/ /\ level_arg \in {HEAVY, EXTREME}
          /\ \E t \in corrupt_run_together(sent_result) :
                sent_result' = split(t)
    /\ sent_pc' = "split"
    /\ UNCHANGED <<split_words, corrupt_indices, sent_returned>>
    /\ csent_frame

\* lines 449-453: at EXTREME a word may be split; then the words are joined
corrupt_sentence_return ==
    /\ sent_pc = "split"
    /\ \/ sent_result' = sent_result
       \/ /\ level_arg = EXTREME
          /\ \E idx \in 1..Len(sent_result) :
                \E w \in corrupt_split(sent_result[idx]) :
                    sent_result' = [sent_result EXCEPT ![idx] = w]
    /\ sent_returned' = join(sent_result')
    /\ sent_pc' = "returned"
    /\ UNCHANGED <<split_words, corrupt_indices>>
    /\ csent_frame

\* line 450: random.randint(0, len(result) - 1) on an empty result raises
\* ValueError, which corrupt_sentence does not catch
corrupt_sentence_raises ==
    /\ sent_pc = "split"
    /\ level_arg = EXTREME
    /\ Len(sent_result) = 0
    /\ sent_pc' = "raised"
    /\ UNCHANGED <<split_words, corrupt_indices, sent_result, sent_returned>>
    /\ csent_frame

NextCorruptSentence ==
    \/ corrupt_sentence_select
    \/ corrupt_sentence_word
    \/ corrupt_sentence_run_together
    \/ corrupt_sentence_return
    \/ corrupt_sentence_raises

SpecCorruptSentence == InitCorruptSentence /\ [][NextCorruptSentence]_vars

\* ---------------------------------------------- claims on corrupt_sentence
SentenceReturned == sent_pc = "returned"

\* the words were split and the indices drawn
Selected == sent_pc \in {"words", "split", "returned", "raised"}

NumWords == Len(split(sentence_arg))

\* C17: no corruption operator and no corruption policy raises; for every
\* input, empty sentences included, and at every level corrupt_sentence
\* returns a string, an empty sentence giving the empty string.
C17_NeverRaises ==
    /\ sent_pc # "raised"
    /\ SentenceReturned /\ NumWords = 0 => sent_returned = <<>>

\* C19 as stated: at LIGHT corrupt_sentence corrupts max(1, round(n*0.2))
\* of the n words (capped at n), leaves the others unchanged in place and
\* returns n words.  n*0.2 is never halfway between two integers, so
\* round(n*0.2) is (2n + 5) div 10.
C19_LightCorruptsRoundedFifth ==
    Selected /\ level_arg = LIGHT =>
        /\ Cardinality(corrupt_indices) =
               Min(Max(1, (2 * NumWords + 5) \div 10), NumWords)
        /\ SentenceReturned =>
               /\ Len(split(sent_returned)) = NumWords
               /\ \A i \in 1..NumWords :
                     (i - 1) \notin corrupt_indices =>
                         split(sent_returned)[i] = split(sentence_arg)[i]

\* C19: at LIGHT corrupt_sentence applies corrupt_word to max(1, n*0.2
\* truncated to an integer) of the n words (capped at n), leaves the others
\* unchanged in place and returns n words.
C19_LightCorruptsTruncatedFifth ==
    Selected /\ level_arg = LIGHT =>
        /\ Cardinality(corrupt_indices) =
               Min(Max(1, NumWords \div 5), NumWords)
        /\ corrupt_indices \subseteq 0..(NumWords - 1)
        /\ SentenceReturned =>
               /\ Len(split(sent_returned)) = NumWords
               /\ \A i \in 1..NumWords :
                     IF (i - 1) \in corrupt_indices
                         THEN split(sent_returned)[i] \in
                                  corrupt_word(split(sentence_arg)[i], LIGHT)
                         ELSE split(sent_returned)[i] = split(sentence_arg)[i]

\* eight words at LIGHT: one word drawn, eight words returned
C19_Witness ==
    /\ SentenceReturned /\ level_arg = LIGHT
    /\ NumWords >= 8
    /\ Cardinality(corrupt_indices) = 1
    /\ Len(split(sent_returned)) = NumWords

\* the number of words corrupt_sentence draws at a level for the sentence
SelectedAt(lv) == Min(num_corrupt(NumWords, lv), NumWords)

\* C20: for the same sentence the number of words drawn for corruption does
\* not decrease from LIGHT to MEDIUM to HEAVY to EXTREME, and the levels'
\* operation counts and intensities strictly increase in that order.
C20_SelectionMonotoneInLevel ==
    /\ Selected => Cardinality(corrupt_indices) = SelectedAt(level_arg)
    /\ SelectedAt(LIGHT) <= SelectedAt(MEDIUM)
    /\ SelectedAt(MEDIUM) <= SelectedAt(HEAVY)
    /\ SelectedAt(HEAVY) <= SelectedAt(EXTREME)
    /\ LIGHT.operations < MEDIUM.operations
    /\ MEDIUM.operations < HEAVY.operations
    /\ HEAVY.operations < EXTREME.operations
    /\ LIGHT.intensity < MEDIUM.intensity
    /\ MEDIUM.intensity < HEAVY.intensity
    /\ HEAVY.intensity < EXTREME.intensity

\* a sentence for which the four levels draw 1, 3, 4 and 6 words
C20_Witness ==
    /\ SentenceReturned /\ level_arg = HEAVY
    /\ Cardinality(corrupt_indices) = 4
    /\ SelectedAt(LIGHT) = 1 /\ SelectedAt(MEDIUM) = 3
    /\ SelectedAt(EXTREME) = 6

\* ------------------------------------------ tables of generate_training_data
\* QWERTY keyboard adjacency map: key -> the keys next to it, as a string
QWERTY_ADJACENT ==
    ("q" :> <<"w","a","1","2">>) @@
    ("w" :> <<"q","e","a","s","2","3">>) @@
    ("e" :> <<"w","r","s","d","3","4">>) @@
    ("r" :> <<"e","t","d","f","4","5">>) @@
    ("t" :> <<"r","y","f","g","5","6">>) @@
    ("y" :> <<"t","u","g","h","6","7">>) @@
    ("u" :> <<"y","i","j","h","7","8">>) @@
    ("i" :> <<"u","o","k","j","8","9">>) @@
    ("o" :> <<"i","p","l","k","9","0">>) @@
    ("p" :> <<"o","l","0">>) @@
    ("a" :> <<"q","w","s","z">>) @@
    ("s" :> <<"a","w","e","d","x","z">>) @@
    ("d" :> <<"s","e","r","f","c","x">>) @@
    ("f" :> <<"d","r","t","g","v","c">>) @@
    ("g" :> <<"f","t","y","h","b","v">>) @@
    ("h" :> <<"g","y","u","j","n","b">>) @@
    ("j" :> <<"h","u","i","k","m","n">>) @@
    ("k" :> <<"j","i","o","l","m">>) @@
    ("l" :> <<"k","o","p">>) @@
    ("z" :> <<"a","s","x">>) @@
    ("x" :> <<"z","s","d","c">>) @@
    ("c" :> <<"x","d","f","v">>) @@
    ("v" :> <<"c","f","g","b">>) @@
    ("b" :> <<"v","g","h","n">>) @@
    ("n" :> <<"b","h","j","m">>) @@
    ("m" :> <<"n","j","k">>) @@
    ("1" :> <<"q","2">>) @@
    ("2" :> <<"w","1","3">>) @@
    ("3" :> <<"e","2","4">>) @@
    ("4" :> <<"r","3","5">>) @@
    ("5" :> <<"t","4","6">>) @@
    ("6" :> <<"y","5","7">>) @@
    ("7" :> <<"u","6","8">>) @@
    ("8" :> <<"i","7","9">>) @@
    ("9" :> <<"o","8","0">>) @@
    ("0" :> <<"p","9">>)

\* Keys that are commonly confused (visual similarity)
VISUAL_CONFUSIONS ==
    ("b" :> "d") @@
    ("d" :> "b") @@
    ("p" :> "q") @@
    ("q" :> "p") @@
    ("m" :> "n") @@
    ("n" :> "m") @@
    ("u" :> "v") @@
    ("v" :> "u") @@
    ("i" :> "l") @@
    ("l" :> "i") @@
    ("o" :> "0") @@
    ("0" :> "o") @@
    ("g" :> "q") @@
    ("a" :> "e") @@
    ("e" :> "a")

\* word -> list of common misspellings
COMMON_MISSPELLINGS ==
    (<<"t","h","e">> :> 
        <<<<"t","e","h">>, <<"h","t","e">>, <<"t","h">>>>) @@
    (<<"a","n","d">> :> 
        <<<<"a","d","n">>, <<"n","a","d">>, <<"a","n","n","d">>>>) @@
    (<<"t","h","a","t">> :> 
        <<<<"t","a","h","t">>, <<"t","a","t","h">>, <<"h","t","a","t">>>>) @@
    (<<"w","i","t","h">> :> 
        <<<<"w","i","h","t">>, <<"w","t","i","h">>, <<"w","t","h">>>>) @@
    (<<"h","a","v","e">> :> 
        <<<<"h","v","a","e">>, <<"a","h","v","e">>, <<"h","v","e">>>>) @@
    (<<"t","h","i","s">> :> 
        <<<<"t","h","s","i">>, <<"t","i","h","s">>, <<"h","t","i","s">>>>) @@
    (<<"f","r","o","m">> :> 
        <<<<"f","o","r","m">>, <<"f","o","m">>, <<"f","r","m","o">>>>) @@
    (<<"t","h","e","y">> :> 
        <<<<"t","e","h","y">>, <<"h","t","e","y">>, <<"t","e","y">>>>) @@
    (<<"b","e","e","n">> :> 
        <<<<"b","e","n","e">>, <<"b","e","n">>, <<"e","b","e","n">>>>) @@
    (<<"s","a","i","d">> :> 
        <<<<"s","i","a","d">>, <<"s","a","d","i">>, <<"s","i","d">>>>) @@
    (<<"b","e","c","a","u","s","e">> :> 
        <<<<"b","e","c","u","a","s","e">>, <<"b","e","c","a","s","u","e">>, <<"b","e","a","c","u","s","e">>, <<"b","e","c","u","z">>>>) @@
    (<<"d","e","f","i","n","i","t","e","l","y">> :> 
        <<<<"d","e","f","i","n","a","t","e","l","y">>, <<"d","e","f","i","n","a","t","l","y">>, <<"d","e","f","i","n","t","e","l","y">>, <<"d","e","f","i","a","n","t","l","y">>>>) @@
    (<<"r","e","c","e","i","v","e">> :> 
        <<<<"r","e","c","i","e","v","e">>, <<"r","e","c","i","v","e">>, <<"r","e","c","e","v","e">>>>) @@
    (<<"b","e","l","i","e","v","e">> :> 
        <<<<"b","e","l","e","i","v","e">>, <<"b","e","l","i","v","e">>, <<"b","e","l","e","a","v","e">>>>) @@
    (<<"w","e","i","r","d">> :> 
        <<<<"w","i","e","r","d">>, <<"w","e","r","d">>, <<"w","e","r","i","d">>>>) @@
    (<<"f","r","i","e","n","d">> :> 
        <<<<"f","r","e","i","n","d">>, <<"f","r","e","n","d">>, <<"f","r","e","e","n","d">>>>) @@
    (<<"w","h","i","c","h">> :> 
        <<<<"w","i","c","h">>, <<"w","h","c","i","h">>, <<"w","h","i","h","c">>>>) @@
    (<<"t","h","e","i","r">> :> 
        <<<<"t","h","i","e","r">>, <<"t","h","e","r">>, <<"t","e","h","i","r">>>>) @@
    (<<"w","o","u","l","d">> :> 
        <<<<"w","o","u","d","l">>, <<"w","u","o","l","d">>, <<"w","o","u","d">>>>) @@
    (<<"c","o","u","l","d">> :> 
        <<<<"c","o","u","d","l">>, <<"c","u","o","l","d">>, <<"c","o","u","d">>>>) @@
    (<<"s","h","o","u","l","d">> :> 
        <<<<"s","h","o","u","d","l">>, <<"s","h","u","o","l","d">>, <<"s","h","o","u","d">>>>) @@
    (<<"p","e","o","p","l","e">> :> 
        <<<<"p","o","e","p","l","e">>, <<"p","e","o","p","e","l">>, <<"p","p","l">>>>) @@
    (<<"t","h","r","o","u","g","h">> :> 
        <<<<"t","h","o","r","u","g","h">>, <<"t","r","o","u","g","h">>, <<"t","h","r","u">>>>) @@
    (<<"t","h","o","u","g","h","t">> :> 
        <<<<"t","h","o","u","g","t">>, <<"t","h","o","u","g","t","h">>, <<"t","h","o","t">>>>) @@
    (<<"s","o","m","e","t","h","i","n","g">> :> 
        <<<<"s","o","m","t","h","i","n","g">>, <<"s","o","m","e","h","t","i","n","g">>, <<"s","m","t","h">>>>) @@
    (<<"d","i","f","f","e","r","e","n","t">> :> 
        <<<<"d","i","f","f","r","e","n","t">>, <<"d","i","f","e","r","e","n","t">>, <<"d","i","f","f","r","e","n","t">>>>) @@
    (<<"i","m","p","o","r","t","a","n","t">> :> 
        <<<<"i","m","p","o","r","t","n","a","t">>, <<"i","m","p","o","r","t","e","n","t">>, <<"i","m","p","r","o","t","a","n","t">>>>) @@
    (<<"t","e","c","h","n","o","l","o","g","y">> :> 
        <<<<"t","e","c","h","n","o","l","g","y">>, <<"t","e","c","h","o","n","o","l","o","g","y">>, <<"t","e","c","h","n","m","o","l","o","g","y">>>>) @@
    (<<"e","x","p","e","r","i","e","n","c","e">> :> 
        <<<<"e","x","p","e","r","i","a","n","c","e">>, <<"e","x","p","e","r","e","i","n","c","e">>, <<"e","x","p","r","e","i","e","n","c","e">>>>) @@
    (<<"e","n","v","i","r","o","n","m","e","n","t">> :> 
        <<<<"e","n","v","i","r","o","m","e","n","t">>, <<"e","n","v","i","o","r","n","m","e","n","t">>, <<"e","n","v","r","i","o","n","m","e","n","t">>>>) @@
    (<<"g","o","v","e","r","n","m","e","n","t">> :> 
        <<<<"g","o","v","e","r","m","e","n","t">>, <<"g","o","v","e","r","n","m","n","e","t">>, <<"g","o","v","e","n","r","m","e","n","t">>>>) @@
    (<<"n","e","c","e","s","s","a","r","y">> :> 
        <<<<"n","e","c","c","e","s","s","a","r","y">>, <<"n","e","c","e","s","a","r","y">>, <<"n","e","c","c","e","s","a","r","y">>>>) @@
    (<<"i","m","m","e","d","i","a","t","e","l","y">> :> 
        <<<<"i","m","m","e","d","i","a","t","l","y">>, <<"i","m","e","d","i","a","t","e","l","y">>, <<"i","m","m","i","d","i","a","t","l","e","y">>>>) @@
    (<<"t","o","m","o","r","r","o","w">> :> 
        <<<<"t","o","m","m","o","r","o","w">>, <<"t","o","m","m","o","r","r","o","w">>, <<"t","o","m","o","r","o","w">>>>) @@
    (<<"t","o","g","e","t","h","e","r">> :> 
        <<<<"t","o","g","e","h","t","e","r">>, <<"t","o","g","a","t","h","e","r">>, <<"t","o","g","h","e","t","e","r">>>>) @@
    (<<"b","e","a","u","t","i","f","u","l">> :> 
        <<<<"b","e","a","t","i","f","u","l">>, <<"b","e","u","t","i","f","u","l">>, <<"b","e","a","u","i","t","f","u","l">>>>) @@
    (<<"s","u","c","c","e","s","s","f","u","l">> :> 
        <<<<"s","u","c","c","e","s","f","u","l">>, <<"s","u","c","c","e","s","s","f","u","l","l">>, <<"s","u","c","e","s","s","f","u","l">>>>) @@
    (<<"b","e","g","i","n","n","i","n","g">> :> 
        <<<<"b","e","g","i","n","i","n","g">>, <<"b","e","g","g","i","n","i","n","g">>, <<"b","e","g","g","i","n","n","i","n","g">>>>) @@
    (<<"w","r","i","t","i","n","g">> :> 
        <<<<"w","r","i","t","t","i","n","g">>, <<"w","r","i","t","n","g">>, <<"w","r","t","i","t","i","n","g">>>>) @@
    (<<"p","r","o","b","a","b","l","y">> :> 
        <<<<"p","r","o","b","a","l","y">>, <<"p","o","r","b","a","b","l","y">>, <<"p","r","o","l","l","y">>>>)

\* abbreviation -> full word
ABBREVIATIONS ==
    (<<"t","h">> :> <<"t","h","e">>) @@
    (<<"t","h","t">> :> <<"t","h","a","t">>) @@
    (<<"w","t","h">> :> <<"w","i","t","h">>) @@
    (<<"h","v">> :> <<"h","a","v","e">>) @@
    (<<"t","h","s">> :> <<"t","h","i","s">>) @@
    (<<"f","r","m">> :> <<"f","r","o","m">>) @@
    (<<"t","h","y">> :> <<"t","h","e","y">>) @@
    (<<"b","n">> :> <<"b","e","e","n">>) @@
    (<<"s","d">> :> <<"s","a","i","d">>) @@
    (<<"b","c">> :> <<"b","e","c","a","u","s","e">>) @@
    (<<"d","e","f">> :> <<"d","e","f","i","n","i","t","e","l","y">>) @@
    (<<"r","c","v">> :> <<"r","e","c","e","i","v","e">>) @@
    (<<"b","l","v">> :> <<"b","e","l","i","e","v","e">>) @@
    (<<"f","r","d">> :> <<"f","r","i","e","n","d">>) @@
    (<<"w","c","h">> :> <<"w","h","i","c","h">>) @@
    (<<"t","h","r">> :> <<"t","h","e","i","r">>) @@
    (<<"w","l","d">> :> <<"w","o","u","l","d">>) @@
    (<<"c","l","d">> :> <<"c","o","u","l","d">>) @@
    (<<"s","h","d">> :> <<"s","h","o","u","l","d">>) @@
    (<<"p","p","l">> :> <<"p","e","o","p","l","e">>) @@
    (<<"t","h","r","u">> :> <<"t","h","r","o","u","g","h">>) @@
    (<<"t","h","o","t">> :> <<"t","h","o","u","g","h","t">>) @@
    (<<"s","m","t","h">> :> <<"s","o","m","e","t","h","i","n","g">>) @@
    (<<"d","i","f","f">> :> <<"d","i","f","f","e","r","e","n","t">>) @@
    (<<"i","m","p">> :> <<"i","m","p","o","r","t","a","n","t">>) @@
    (<<"t","e","c","h">> :> <<"t","e","c","h","n","o","l","o","g","y">>) @@
    (<<"e","x","p">> :> <<"e","x","p","e","r","i","e","n","c","e">>) @@
    (<<"e","n","v">> :> <<"e","n","v","i","r","o","n","m","e","n","t">>) @@
    (<<"g","o","v">> :> <<"g","o","v","e","r","n","m","e","n","t">>) @@
    (<<"n","e","c">> :> <<"n","e","c","e","s","s","a","r","y">>) @@
    (<<"i","m","m">> :> <<"i","m","m","e","d","i","a","t","e","l","y">>) @@
    (<<"t","m","r","w">> :> <<"t","o","m","o","r","r","o","w">>) @@
    (<<"t","g","t">> :> <<"t","o","g","e","t","h","e","r">>) @@
    (<<"p","r","o","b">> :> <<"p","r","o","b","a","b","l","y">>) @@
    (<<"d","e","f","d","n","t">> :> <<"d","e","f","e","n","d","a","n","t">>) @@
    (<<"p","l","n","t","f","f">> :> <<"p","l","a","i","n","t","i","f","f">>) @@
    (<<"c","o","n","t","r","c","t">> :> <<"c","o","n","t","r","a","c","t">>) @@
    (<<"e","v","d","n","c","e">> :> <<"e","v","i","d","e","n","c","e">>) @@
    (<<"t","e","s","t","m","n","y">> :> <<"t","e","s","t","i","m","o","n","y">>) @@
    (<<"c","r","t">> :> <<"c","o","u","r","t">>) @@
    (<<"j","d","g","e">> :> <<"j","u","d","g","e">>) @@
    (<<"r","v","n">> :> <<"r","e","v","e","n","u","e">>) @@
    (<<"g","r","w","t","h">> :> <<"g","r","o","w","t","h">>) @@
    (<<"i","n","v","s","t","m","t">> :> <<"i","n","v","e","s","t","m","e","n","t">>) @@
    (<<"r","t","r","n","s">> :> <<"r","e","t","u","r","n","s">>) @@
    (<<"s","t","k">> :> <<"s","t","o","c","k">>) @@
    (<<"m","k","t">> :> <<"m","a","r","k","e","t">>)

\* ------------------------------------- operators of generate_training_data
\* Each operator is the set of strings that func(word) can return as
\* new_result; a call that modifies nothing returns the word itself.

\* lines 426-435: the characters adjacent_key_error(char) can return
adjacent_key_error(char) ==
    IF LowerChar(char) \in DOMAIN QWERTY_ADJACENT
    THEN LET adjacent == QWERTY_ADJACENT[LowerChar(char)]
         IN  {IF char \in UpperSet THEN UpperChar(adjacent[i]) ELSE adjacent[i] :
                 i \in 1..Min(Len(adjacent), MaxNeighbours)}
    ELSE {char}

\* lines 438-446: the character visual_confusion_error(char) returns
visual_confusion_error(char) ==
    IF LowerChar(char) \in DOMAIN VISUAL_CONFUSIONS
    THEN IF char \in UpperSet
         THEN UpperChar(VISUAL_CONFUSIONS[LowerChar(char)])
         ELSE VISUAL_CONFUSIONS[LowerChar(char)]
    ELSE char

\* lines 449-474: every position has a positive weight
transpose_adjacent(word) ==
    IF Len(word) < 2 THEN {word}
    ELSE {Swap(word, pos) : pos \in 1..(Len(word) - 1)}

\* lines 477-501
delete_character(word) ==
    IF Len(word) < 3 THEN {word}
    ELSE {RemoveAt(word, pos) : pos \in 1..Len(word)}

\* lines 504-525: word[:pos] + word[pos] + word[pos:]
duplicate_character(word) ==
    IF Len(word) < 2 THEN {word}
    ELSE {SubSeq(word, 1, pos) \o SubSeq(word, pos, Len(word)) :
             pos \in 1..Len(word)}

\* lines 602-603: the 'adjacent' entry of all_corruptions. With probability
\* 0.3 the value is adjacent_key_error(random.choice(w))[0], one character,
\* and not the word with that character replaced.
adjacent_corruption(w) ==
    {w} \cup {<<k>> : k \in UNION {adjacent_key_error(w[i]) : i \in 1..Len(w)}}

\* lines 635-645: each character is replaced with probability 0.2
VisualChoices ==
    [c \in {k \in Letters \cup Digits :
                LowerChar(k) \in DOMAIN VISUAL_CONFUSIONS} |->
        {c, visual_confusion_error(c)}]
apply_visual_corruption(word) == Substitute(word, VisualChoices)

\* str.capitalize and str.isupper
capitalize(s) ==
    [i \in 1..Len(s) |-> IF i = 1 THEN UpperChar(s[i]) ELSE LowerChar(s[i])]
isupper(s) ==
    /\ \E i \in 1..Len(s) : s[i] \in UpperSet
    /\ \A i \in 1..Len(s) : s[i] \notin LowerSet

\* lines 544-555
apply_known_misspelling(word) ==
    IF lower(word) \in DOMAIN COMMON_MISSPELLINGS
    THEN LET choices == COMMON_MISSPELLINGS[lower(word)]
             cased(m) == LET c == IF word[1] \in UpperSet THEN capitalize(m)
                                  ELSE m
                         IN  IF isupper(word) THEN upper(c) ELSE c
         IN  {cased(choices[i]) : i \in 1..Len(choices)}
    ELSE {word}

\* lines 598-605: the names of all_corruptions
all_corruptions ==
    {"transpose", "delete", "duplicate", "adjacent", "visual", "misspelling"}

apply_corruption(name, w) ==
    CASE name = "transpose"   -> transpose_adjacent(w)
      [] name = "delete"      -> delete_character(w)
      [] name = "duplicate"   -> duplicate_character(w)
      [] name = "adjacent"    -> adjacent_corruption(w)
      [] name = "visual"      -> apply_visual_corruption(w)
      [] name = "misspelling" -> apply_known_misspelling(w)

\* lines 558-576: abbreviate_word returns (word, was_modified); the value is
\* <<>> when was_modified is False and <<abbreviation>> when it is True
strip_vowels(s) == SelectSeq(s, LAMBDA c : c \notin vowels)
abbreviate_word(word) ==
    LET matching == {abbrev \in DOMAIN ABBREVIATIONS :
                        ABBREVIATIONS[abbrev] = lower(word)}
        abbreviated == <<word[1]>> \o strip_vowels(Tail(word))
    IN  IF matching # {}
        THEN LET abbrev == CHOOSE a \in matching : TRUE
             IN  <<IF word[1] \in UpperSet THEN capitalize(abbrev) ELSE abbrev>>
        ELSE IF Len(word) >= 6 /\ Len(abbreviated) >= 3 /\ abbreviated # word
             THEN <<abbreviated>>
             ELSE <<>>

\* line 674: word.strip('.,!?;:'), and lines 677-682: the trailing punctuation
Punctuation == {".", ",", "!", "?", ";", ":"}
RECURSIVE rstrip(_)
rstrip(s) ==
    IF s # <<>> /\ s[Len(s)] \in Punctuation
    THEN rstrip(SubSeq(s, 1, Len(s) - 1)) ELSE s
RECURSIVE lstrip(_)
lstrip(s) ==
    IF s # <<>> /\ s[1] \in Punctuation THEN lstrip(Tail(s)) ELSE s
strip_punctuation(s) == lstrip(rstrip(s))
trailing(word) == SubSeq(word, Len(rstrip(word)) + 1, Len(word))

\* lines 591-596: corrupt_word returns word when len(word) < 2 or when
\* not any(c.isalpha() for c in word)
returned_as_is_short(word) == Len(word) < 2
returned_as_is(word) ==
    Len(word) < 2 \/ ~(\E i \in 1..Len(word) : word[i] \in Letters)

\* line 731: word_error_rate = 0.2 + (intensity * 0.4), in hundredths
word_error_rate(intensity) == 20 + (intensity * 40) \div 100

\* line 708: the default intensity_levels, in hundredths
intensity_levels == {20, 40, 60, 80}

\* ----------------------- generate_training_data.corrupt_sentence as a machine
ThePt_ == The_ \o <<".">>
\* tokens that corrupt_word returns as they are, and words it corrupts
ShortTokens == {Ay_, N42_}
LongWords == {The_, ThePt_}

\* the sequences of n tokens of the set tokens
RECURSIVE Tokens(_, _)
Tokens(tokens, n) ==
    IF n = 0 THEN {<<>>}
    ELSE {<<t>> \o ts : t \in tokens, ts \in Tokens(tokens, n - 1)}

\* sentences of at most MaxTrainingWords words, at most one of them long
TrainingSentences ==
    {join(ts) : ts \in UNION {Tokens(ShortTokens, n) :
                                  n \in 1..MaxTrainingWords}}
    \cup UNION {{join(before \o <<w>> \o after) :
                    w \in LongWords,
                    before \in Tokens(ShortTokens, p[1]),
                    after \in Tokens(ShortTokens, p[2])} :
                p \in {q \in (0..MaxTrainingWords) \X (0..MaxTrainingWords) :
                          q[1] + q[2] + 1 <= MaxTrainingWords}}

InitTraining ==
    /\ CoreIdle
    /\ SentencesIdle
    /\ WordIdle
    /\ CorruptSentenceIdle
    /\ ToolsIdle
    /\ td_sentence \in TrainingSentences
    /\ td_intensity \in intensity_levels
    /\ td_pc = "enter"
    /\ td_words = <<>>
    /\ td_corrupted_words = <<>>
    /\ td_word = <<>>
    /\ td_num_corruptions = 0
    /\ td_iter = 0
    /\ td_result = <<>>
    /\ td_returned = <<>>

td_frame ==
    UNCHANGED <<core_vars, sentence_vars, word_vars, csent_vars, tool_vars,
                td_sentence, td_intensity>>

\* the word the loop of line 670 is at
td_current == td_words[Len(td_corrupted_words) + 1]
td_in_loop == td_pc = "words" /\ Len(td_corrupted_words) < Len(td_words)

\* line 666: words = sentence.split()
td_split ==
    /\ td_pc = "enter"
    /\ td_words' = split(td_sentence)
    /\ td_pc' = "words"
    /\ UNCHANGED <<td_corrupted_words, td_word, td_num_corruptions, td_iter,
                   td_result, td_returned>>
    /\ td_frame

\* lines 671, 694-695: the word is not drawn for corruption
td_keep_word ==
    /\ td_in_loop
    /\ CanMiss(word_error_rate(td_intensity))
    /\ td_corrupted_words' = Append(td_corrupted_words, td_current)
    /\ UNCHANGED <<td_pc, td_words, td_word, td_num_corruptions, td_iter,
                   td_result, td_returned>>
    /\ td_frame

\* lines 671-686: the abbreviation path, with probability 0.15
td_abbreviate ==
    /\ td_in_loop
    /\ CanHit(word_error_rate(td_intensity))
    /\ LET abbrev == abbreviate_word(strip_punctuation(td_current))
       IN  /\ abbrev # <<>>
           /\ td_corrupted_words' =
                  Append(td_corrupted_words, abbrev[1] \o trailing(td_current))
    /\ UNCHANGED <<td_pc, td_words, td_word, td_num_corruptions, td_iter,
                   td_result, td_returned>>
    /\ td_frame

\* lines 689, 591-596: corrupt_word returns a word that is too short or
\* has no letter as it is
td_corrupt_word_unchanged ==
    /\ td_in_loop
    /\ CanHit(word_error_rate(td_intensity))
    /\ returned_as_is(td_current)
    /\ td_word' = td_current
    /\ td_result' = td_current
    /\ td_num_corruptions' = 0
    /\ td_iter' = 0
    /\ td_pc' = "word_returned"
    /\ UNCHANGED <<td_words, td_corrupted_words, td_returned>>
    /\ td_frame

\* lines 689, 615-619: result = word, num_corruptions is drawn from 1..3
td_corrupt_word_begin ==
    /\ td_in_loop
    /\ CanHit(word_error_rate(td_intensity))
    /\ ~returned_as_is(td_current)
    /\ td_word' = td_current
    /\ td_result' = td_current
    /\ \/ CanMiss(td_intensity) /\ td_num_corruptions' = 1
       \/ CanHit(td_intensity) /\ td_num_corruptions' \in {2, 3}
    /\ td_iter' = 0
    /\ td_pc' = "corruptions"
    /\ UNCHANGED <<td_words, td_corrupted_words, td_returned>>
    /\ td_frame

\* lines 621-623: an iteration that is skipped
td_corruption_skipped ==
    /\ td_pc = "corruptions"
    /\ td_iter < td_num_corruptions
    /\ CanMiss(td_intensity)
    /\ td_iter' = td_iter + 1
    /\ UNCHANGED <<td_pc, td_words, td_corrupted_words, td_word,
                   td_num_corruptions, td_result, td_returned>>
    /\ td_frame

\* lines 621-629: an iteration that applies one corruption drawn from the list
td_corruption ==
    /\ td_pc = "corruptions"
    /\ td_iter < td_num_corruptions
    /\ CanHit(td_intensity)
    /\ \E name \in all_corruptions :
          td_result' \in apply_corruption(name, td_result)
    /\ td_iter' = td_iter + 1
    /\ UNCHANGED <<td_pc, td_words, td_corrupted_words, td_word,
                   td_num_corruptions, td_returned>>
    /\ td_frame

\* line 631: corrupt_word returns result
td_corrupt_word_return ==
    /\ td_pc = "corruptions"
    /\ td_iter = td_num_corruptions
    /\ td_pc' = "word_returned"
    /\ UNCHANGED <<td_words, td_corrupted_words, td_word, td_num_corruptions,
                   td_iter, td_result, td_returned>>
    /\ td_frame

\* line 690: corrupted_words.append(result.corrupted); the locals of the
\* call of corrupt_word are gone
td_append ==
    /\ td_pc = "word_returned"
    /\ td_corrupted_words' = Append(td_corrupted_words, td_result)
    /\ td_pc' = "words"
    /\ td_word' = <<>>
    /\ td_num_corruptions' = 0
    /\ td_iter' = 0
    /\ td_result' = <<>>
    /\ UNCHANGED <<td_words, td_returned>>
    /\ td_frame

\* lines 697-701 and 740-747: the sentence is joined, and the pair is
\* appended to pairs when the corrupted sentence differs from the original
td_emit_pair ==
    /\ td_pc = "words"
    /\ Len(td_corrupted_words) = Len(td_words)
    /\ td_returned' = join(td_corrupted_words)
    /\ td_pc' = IF join(td_corrupted_words) # td_sentence
                THEN "pair" ELSE "no_pair"
    /\ UNCHANGED <<td_words, td_corrupted_words, td_word, td_num_corruptions,
                   td_iter, td_result>>
    /\ td_frame

NextTraining ==
    \/ td_split
    \/ td_keep_word
    \/ td_abbreviate
    \/ td_corrupt_word_unchanged
    \/ td_corrupt_word_begin
    \/ td_corruption_skipped
    \/ td_corruption
    \/ td_corrupt_word_return
    \/ td_append
    \/ td_emit_pair

SpecTraining == InitTraining /\ [][NextTraining]_vars


\* ------------------------------- claims on generate_training_data's pairs
PairEmitted == td_pc = "pair"

\* C16: in every Training Pair that generate_training_data produces, each
\* corrupted word is at least 40% as long as the original word it was
\* derived from, through corrupt_word as well as through the abbreviation
\* path of corrupt_sentence.
C16_CorruptedWordsAboveFloor ==
    PairEmitted =>
        \A i \in 1..Len(td_words) :
            5 * Len(td_corrupted_words[i]) >= 2 * Len(td_words[i])


\* ------------------------------------ the word level of both generators
InitCorruptWords == InitCorruptWord \/ InitTraining
NextCorruptWords == NextCorruptWord \/ NextTraining
SpecCorruptWords == InitCorruptWords /\ [][NextCorruptWords]_vars

NoLetter(word) == \A i \in 1..Len(word) : word[i] \notin Letters
TrainingWordReturned == td_pc = "word_returned"

\* C18: corrupt_word of generate_fuzzy_training and corrupt_word of
\* generate_training_data return a one-character token, and a token without
\* any alphabetic character, unchanged, at every level and intensity and
\* whatever the random draws are.
C18_ShortOrNonAlphabeticUnchanged ==
    /\ WordReturned /\ (Len(word_arg) = 1 \/ NoLetter(word_arg))
           => word_result = word_arg
    /\ TrainingWordReturned /\ (Len(td_word) = 1 \/ NoLetter(td_word))
           => td_result = td_word

\* generate_training_data's corrupt_word has returned "42", whose digits
\* have neighbours in QWERTY_ADJACENT, as it was
C18_Witness ==
    /\ TrainingWordReturned
    /\ td_word = N42_
    /\ td_result = N42_
    /\ td_intensity = 80


\* ------------------------------------------- single calls of the operators
\* the frame of a call of one operator
op_frame ==
    UNCHANGED <<core_vars, sentence_vars, word_vars, csent_vars, td_vars,
                demo_vars, news_vars, op_name, op_input, op_intensity>>

OtherMachinesIdle ==
    /\ CoreIdle /\ SentencesIdle /\ WordIdle /\ CorruptSentenceIdle
    /\ TrainingIdle /\ DemoIdle /\ NewsIdle

\* the words of at most MaxDropLen characters over two vowels and a consonant
DropWords ==
    UNION {Tokens({"a", "E", "b"}, n) : n \in 0..MaxDropLen}

\* intensity 0.0, the default 0.5, and 1.0
DropIntensities == {0, 50, 100}

InitVowelDrop ==
    /\ OtherMachinesIdle
    /\ op_name = "corrupt_vowel_drop"
    /\ op_input \in DropWords
    /\ op_intensity \in DropIntensities
    /\ op_output = <<>>
    /\ op_pc = "enter"

call_corrupt_vowel_drop ==
    /\ op_pc = "enter"
    /\ op_name = "corrupt_vowel_drop"
    /\ op_output' \in corrupt_vowel_drop(op_input, op_intensity)
    /\ op_pc' = "returned"
    /\ op_frame

NextVowelDrop == call_corrupt_vowel_drop

SpecVowelDrop == InitVowelDrop /\ [][NextVowelDrop]_vars

VowelsOf(s) == SelectSeq(s, LAMBDA c : c \in vowels)
NonVowelsOf(s) == SelectSeq(s, LAMBDA c : c \notin vowels)
VowelDropReturned == op_name = "corrupt_vowel_drop" /\ op_pc = "returned"

\* C21: corrupt_vowel_drop leaves at least one vowel in a word that had
\* one, at every intensity from 0 to 1 and whatever the random draws are,
\* and the characters that are not vowels stay, in their order.
C21_VowelDropKeepsAVowel ==
    VowelDropReturned =>
        /\ VowelsOf(op_input) # <<>> => VowelsOf(op_output) # <<>>
        /\ NonVowelsOf(op_output) = NonVowelsOf(op_input)

\* a word of three vowels has come back with one vowel
C21_Witness ==
    /\ VowelDropReturned
    /\ Len(VowelsOf(op_input)) = 3
    /\ Len(VowelsOf(op_output)) = 1
    /\ Len(op_output) = 2


\* ------------------------------ claims on the muscle-memory branch
\* corrupt_word has returned from line 359: no iteration of the operator
\* loop ran, and the word passed the test of line 354
MuscleMemoryReturned ==
    /\ WordReturned
    /\ ~(Len(word_arg) < 2 \/ ~isalpha(word_arg))
    /\ ops_done = 0

islower(s) ==
    /\ \E i \in 1..Len(s) : s[i] \in LowerSet
    /\ \A i \in 1..Len(s) : s[i] \notin UpperSet

\* the capitalization pattern of word is found again in r: the case of the
\* first letter, all capitals, all small letters
SameCasePattern(word, r) ==
    /\ IsUpper(r[1]) = IsUpper(word[1])
    /\ isupper(word) => isupper(r)
    /\ islower(word) => islower(r)

\* C22: when the muscle-memory branch of corrupt_word triggers, the result
\* is one of the table's misspellings of the word, it has the capitalization
\* pattern of the original word, and neither a generic operator nor the
\* length-floor repair is applied to it.
C22_MuscleMemoryKeepsCasePattern ==
    MuscleMemoryReturned =>
        /\ lower(word_arg) \in DOMAIN MUSCLE_MEMORY_ERRORS
        /\ lower(word_result) \in Range(MUSCLE_MEMORY_ERRORS[lower(word_arg)])
        /\ SameCasePattern(word_arg, word_result)
        /\ ops_result = <<>>


\* ------------------------------------------- calls of get_adjacent_keys
\* the characters a call is made with: the letters in both cases, the
\* digits and some punctuation
KeyChars ==
    LowerSet \cup UpperSet \cup Digits \cup {".", ",", ";", "'", "-", " "}

\* the default intensity of corrupt_adjacent and the one of EXTREME
KeyIntensities == {30, 70}

InitAdjacentKeys ==
    /\ OtherMachinesIdle
    /\ op_name \in {"get_adjacent_keys", "corrupt_adjacent"}
    /\ op_input \in {<<c>> : c \in KeyChars}
    /\ op_intensity \in IF op_name = "corrupt_adjacent"
                           THEN KeyIntensities ELSE {0}
    /\ op_output = <<>>
    /\ op_pc = "enter"

\* get_adjacent_keys(char); the list returned is a sequence of characters
call_get_adjacent_keys ==
    /\ op_pc = "enter"
    /\ op_name = "get_adjacent_keys"
    /\ op_output' = get_adjacent_keys(op_input[1])
    /\ op_pc' = "returned"
    /\ op_frame

\* corrupt_adjacent(word, intensity) on a word of one character
call_corrupt_adjacent ==
    /\ op_pc = "enter"
    /\ op_name = "corrupt_adjacent"
    /\ op_output' \in corrupt_adjacent(op_input, op_intensity)
    /\ op_pc' = "returned"
    /\ op_frame

NextAdjacentKeys == call_get_adjacent_keys \/ call_corrupt_adjacent

SpecAdjacentKeys == InitAdjacentKeys /\ [][NextAdjacentKeys]_vars

\* the grid keys whose row and column differ by at most 1 from those of k
Neighbourhood(k) ==
    {n \in DOMAIN QWERTY_POS :
        /\ Abs(QWERTY_POS[n][1] - QWERTY_POS[k][1]) <= 1
        /\ Abs(QWERTY_POS[n][2] - QWERTY_POS[k][2]) <= 1
        /\ n # k}

AdjacentKeysReturned == op_name = "get_adjacent_keys" /\ op_pc = "returned"

\* C23: for a lowercase letter of the grid get_adjacent_keys returns the
\* keys of its 3x3 neighbourhood, diagonals included, without the key
\* itself, each once, and at least one; for any other character it returns
\* the character itself, and corrupt_adjacent leaves a character whose key
\* is not on the grid as it is.
C23_AdjacentKeysAreTheNeighbourhood ==
    /\ AdjacentKeysReturned =>
           LET char == op_input[1]
           IN  IF char \in DOMAIN QWERTY_POS
                   THEN /\ Range(op_output) = Neighbourhood(char)
                        /\ Len(op_output) = Cardinality(Neighbourhood(char))
                        /\ op_output # <<>>
                   ELSE op_output = <<char>>
    /\ (/\ op_name = "corrupt_adjacent" /\ op_pc = "returned"
        /\ LowerChar(op_input[1]) \notin DOMAIN QWERTY_POS)
           => op_output = op_input

\* get_adjacent_keys("s") has returned the eight keys around s
C23_Witness ==
    /\ AdjacentKeysReturned
    /\ op_input = <<"s">>
    /\ Range(op_output) = {"q", "w", "e", "a", "d", "z", "x", "c"}
    /\ Len(op_output) = 8


\* --------------------- calls of corrupt_run_together and corrupt_split
\* lists of at most MaxRunWords words
RunWordLists ==
    UNION {Tokens({I_, Go_, Seed_}, n) : n \in 0..MaxRunWords}

\* the words "", "a", "ab", ... of at most MaxSplitLen characters
SplitWords ==
    {SubSeq(LowerLetters, 1, n) : n \in 0..MaxSplitLen}

InitSentenceOps ==
    /\ OtherMachinesIdle
    /\ \/ op_name = "corrupt_run_together" /\ op_input \in RunWordLists
       \/ op_name = "corrupt_split" /\ op_input \in SplitWords
    /\ op_intensity = 0
    /\ op_output = <<>>
    /\ op_pc = "enter"

call_corrupt_run_together ==
    /\ op_pc = "enter"
    /\ op_name = "corrupt_run_together"
    /\ op_output' \in corrupt_run_together(op_input)
    /\ op_pc' = "returned"
    /\ op_frame

call_corrupt_split ==
    /\ op_pc = "enter"
    /\ op_name = "corrupt_split"
    /\ op_output' \in corrupt_split(op_input)
    /\ op_pc' = "returned"
    /\ op_frame

NextSentenceOps == call_corrupt_run_together \/ call_corrupt_split

SpecSentenceOps == InitSentenceOps /\ [][NextSentenceOps]_vars

NonSpace(s) == SelectSeq(s, LAMBDA c : c # " ")
Spaces(s) == Len(s) - Len(NonSpace(s))
RunTogetherReturned == op_name = "corrupt_run_together" /\ op_pc = "returned"
SplitReturned == op_name = "corrupt_split" /\ op_pc = "returned"

\* the result of corrupt_split on a word of 4 or more characters has one
\* space, which is not at either end, and the word's characters
SplitInsertsOneSpaceInside ==
    (SplitReturned /\ Len(op_input) >= 4) =>
        /\ Spaces(op_output) = 1
        /\ op_output[1] # " " /\ op_output[Len(op_output)] # " "
        /\ NonSpace(op_output) = op_input

\* C24 as stated: corrupt_run_together lowers the word count by 1 or 2 and
\* never below 1, corrupt_split inserts exactly one space strictly inside a
\* word of length >= 4, and both keep the sequence of non-space characters.
C24_RunTogetherLowersWordCount ==
    /\ RunTogetherReturned =>
           /\ Len(op_input) - Len(split(op_output)) \in {1, 2}
           /\ Len(split(op_output)) >= 1
           /\ NonSpace(op_output) = Flatten(op_input)
    /\ SplitInsertsOneSpaceInside

\* C24, amended: the word count goes down by 1 or 2 for a list of 2 or more
\* words (by 1 only for 2 words); a list of fewer than 2 words is returned
\* joined as it is.  corrupt_split leaves a word shorter than 4 as it is and
\* otherwise puts one space with at least 2 characters on either side.
C24_RunTogetherLowersWordCountFromTwo ==
    /\ RunTogetherReturned =>
           /\ IF Len(op_input) >= 2
                  THEN /\ Len(op_input) - Len(split(op_output))
                              \in 1..Min(2, Len(op_input) - 1)
                       /\ Len(split(op_output)) >= 1
                  ELSE op_output = join(op_input)
           /\ NonSpace(op_output) = Flatten(op_input)
    /\ SplitInsertsOneSpaceInside
    /\ SplitReturned =>
           IF Len(op_input) < 4 THEN op_output = op_input
           ELSE \E p \in 2..(Len(op_input) - 2) : op_output[p + 1] = " "

\* four words have come back as two
C24_Witness ==
    /\ RunTogetherReturned
    /\ Len(op_input) = 4
    /\ Len(split(op_output)) = 2
    /\ Spaces(op_output) = 1


\* --------------------------------------- MindFlowDemo (mindtype_realtime)
\* MarkerState
DORMANT   == "dormant"
IDLE      == "idle"
LISTENING == "listening"
THINKING  == "thinking"
SWEEPING  == "sweeping"
COMPLETE  == "complete"
DISABLED  == "disabled"
ERROR     == "error"

\* the keys read by run that reach handle_key: two printable characters,
\* Backspace, Ctrl+W, Ctrl+U, Enter, and Ctrl+A for a key that is neither
DemoKeys == {"a", " ", "backspace", "ctrl_w", "ctrl_u", "enter", "ctrl_a"}
isprintable(key) == key \in {"a", " "}

\* the two characters read after Escape: the toggle, another sequence, and
\* none when no input follows within 10 ms
EscapeSequences == {"[D", "[C", "none"}

\* the texts engine.correct can return as a correction
CorrectedTexts == {<<"b">>, <<"b", "b">>}

\* lines 234-246: the text after handle_key(key)
edited_text(t, key) ==
    IF key = "backspace" THEN (IF t # <<>> THEN SubSeq(t, 1, Len(t) - 1) ELSE <<>>)
    ELSE IF key = "ctrl_w"
        THEN LET words == split(t)
             IN  IF words # <<>> THEN join(SubSeq(words, 1, Len(words) - 1))
                 ELSE <<>>
    ELSE IF key = "ctrl_u" THEN <<>>
    ELSE IF key = "enter" THEN t
    ELSE IF isprintable(key) THEN t \o <<key>>
    ELSE t

\* lines 284-288: the state toggle sets, with the flag always giving IDLE
toggle_state_idle(e) == IDLE
toggle_state(e) == IF e THEN IDLE ELSE DISABLED

\* lines 265-279, 186: the state do_correction sets when engine.correct has
\* returned, with ERROR for a failure
state_after_correct_error(outcome) ==
    IF outcome = "changed" THEN SWEEPING
    ELSE IF outcome = "unchanged" THEN COMPLETE
    ELSE ERROR
state_after_correct(outcome) ==
    IF outcome = "changed" THEN SWEEPING
    ELSE IF outcome = "unchanged" THEN COMPLETE
    ELSE IDLE

\* line 348: the test of the pause branch, with the flag enabled left out
pause_check_any(e, t, applied) == strip(t) # <<>> /\ ~applied
pause_check(e, t, applied) == e /\ strip(t) # <<>> /\ ~applied

\* lines 130-140 and 328-330: the demo constructed, the model loaded, the
\* loop about to start; last_keystroke is 0.0, so the pause has elapsed
InitDemo ==
    /\ CoreIdle /\ SentencesIdle /\ WordIdle /\ CorruptSentenceIdle
    /\ TrainingIdle /\ OperatorIdle /\ NewsIdle
    /\ demo_text = <<>>
    /\ demo_state = IDLE
    /\ last_correction_applied = FALSE
    /\ enabled = TRUE
    /\ pause_elapsed = TRUE
    /\ demo_pc = "poll"
    /\ force_now = FALSE
    /\ sweep_to = <<>>
    /\ pause_calls = 0

demo_frame ==
    UNCHANGED <<core_vars, sentence_vars, word_vars, csent_vars, td_vars,
                op_vars, news_vars>>

\* lines 335-336: Ctrl+C ends the loop
key_ctrl_c ==
    /\ demo_pc = "poll"
    /\ demo_pc' = "exited"
    /\ UNCHANGED <<demo_text, demo_state, last_correction_applied, enabled,
                   pause_elapsed, force_now, sweep_to, pause_calls>>
    /\ demo_frame

\* lines 337-343 and 282-289: Escape; the sequence [D calls toggle
key_escape ==
    /\ demo_pc = "poll"
    /\ \E seq \in EscapeSequences :
          IF seq = "[D"
              THEN /\ enabled' = ~enabled
                   /\ demo_state' = toggle_state(~enabled)
              ELSE UNCHANGED <<enabled, demo_state>>
    /\ UNCHANGED <<demo_text, last_correction_applied, pause_elapsed, demo_pc,
                   force_now, sweep_to, pause_calls>>
    /\ demo_frame

\* lines 345-346: input is ignored when disabled
key_ignored ==
    /\ demo_pc = "poll"
    /\ ~enabled
    /\ \E key \in DemoKeys : TRUE
    /\ UNCHANGED demo_vars
    /\ demo_frame

\* lines 348, 228-247: handle_key; Enter on a text that is not blank goes on
\* to do_correction(force_now=True)
handle_key ==
    /\ demo_pc = "poll"
    /\ enabled
    /\ \E key \in DemoKeys :
          /\ isprintable(key) => Len(demo_text) < MaxDemoText
          /\ demo_text' = edited_text(demo_text, key)
          /\ IF key = "enter" /\ strip(demo_text) # <<>>
                 THEN demo_pc' = "do_correction" /\ force_now' = TRUE
                 ELSE demo_pc' = "poll" /\ force_now' = FALSE
    /\ pause_elapsed' = FALSE
    /\ demo_state' = LISTENING
    /\ last_correction_applied' = FALSE
    /\ pause_calls' = 0
    /\ UNCHANGED <<enabled, sweep_to>>
    /\ demo_frame

\* lines 347-357: no input; once the pause has elapsed it stays elapsed until
\* the next keystroke.  When the test of line 348 passes and the pause has
\* elapsed, LISTENING becomes THINKING and do_correction() is called.
idle_gap ==
    /\ demo_pc = "poll"
    /\ \E elapsed \in (IF pause_elapsed THEN {TRUE} ELSE {TRUE, FALSE}) :
          /\ pause_elapsed' = elapsed
          /\ IF pause_check(enabled, demo_text, last_correction_applied)
                    /\ elapsed
                 THEN /\ demo_state' = IF demo_state = LISTENING
                                           THEN THINKING ELSE demo_state
                      /\ demo_pc' = "do_correction"
                 ELSE UNCHANGED <<demo_state, demo_pc>>
    /\ force_now' = FALSE
    /\ UNCHANGED <<demo_text, last_correction_applied, enabled, sweep_to,
                   pause_calls>>
    /\ demo_frame

\* lines 255-263: do_correction up to the call of engine.correct
do_correction ==
    /\ demo_pc = "do_correction"
    /\ IF strip(demo_text) = <<>>
           THEN /\ demo_pc' = "poll"
                /\ UNCHANGED <<demo_state, pause_calls>>
           ELSE /\ demo_state' = THINKING
                /\ demo_pc' = "correct"
                /\ pause_calls' = IF force_now THEN pause_calls
                                  ELSE Min(pause_calls + 1, MaxPauseCalls)
    /\ UNCHANGED <<demo_text, last_correction_applied, enabled, pause_elapsed,
                   force_now, sweep_to>>
    /\ demo_frame

\* lines 265-267, 186: engine.correct succeeds with another text;
\* animate_sweep starts
correct_changed ==
    /\ demo_pc = "correct"
    /\ \E corrected \in CorrectedTexts \ {demo_text} : sweep_to' = corrected
    /\ demo_state' = state_after_correct("changed")
    /\ demo_pc' = "sweep"
    /\ UNCHANGED <<demo_text, last_correction_applied, enabled, pause_elapsed,
                   force_now, pause_calls>>
    /\ demo_frame

\* lines 218-220: the end of the animation
sweep_complete ==
    /\ demo_pc = "sweep"
    /\ demo_text' = sweep_to
    /\ demo_state' = COMPLETE
    /\ demo_pc' = "complete"
    /\ UNCHANGED <<last_correction_applied, enabled, pause_elapsed, force_now,
                   sweep_to, pause_calls>>
    /\ demo_frame

\* lines 269-272: engine.correct succeeds with the same text
correct_unchanged ==
    /\ demo_pc = "correct"
    /\ demo_state' = state_after_correct("unchanged")
    /\ demo_pc' = "complete"
    /\ UNCHANGED <<demo_text, last_correction_applied, enabled, pause_elapsed,
                   force_now, sweep_to, pause_calls>>
    /\ demo_frame

\* lines 223-226 and 268, or 273-276: after 0.3 s the state is IDLE and
\* last_correction_applied is set
complete_idle ==
    /\ demo_pc = "complete"
    /\ demo_state' = IDLE
    /\ last_correction_applied' = TRUE
    /\ demo_pc' = "poll"
    /\ sweep_to' = <<>>
    /\ UNCHANGED <<demo_text, enabled, pause_elapsed, force_now, pause_calls>>
    /\ demo_frame

\* lines 277-280: engine.correct fails
correct_rejected ==
    /\ demo_pc = "correct"
    /\ demo_state' = state_after_correct("rejected")
    /\ demo_pc' = "poll"
    /\ UNCHANGED <<demo_text, last_correction_applied, enabled, pause_elapsed,
                   force_now, sweep_to, pause_calls>>
    /\ demo_frame

NextDemo ==
    \/ key_ctrl_c
    \/ key_escape
    \/ key_ignored
    \/ handle_key
    \/ idle_gap
    \/ do_correction
    \/ correct_changed
    \/ sweep_complete
    \/ correct_unchanged
    \/ complete_idle
    \/ correct_rejected

SpecDemo == InitDemo /\ [][NextDemo]_vars


\* ------------------------------------------------ claims on MindFlowDemo
\* the state is st after a step and was another state before it
Enters(st) == demo_state' = st /\ demo_state # st

\* C25 as stated: THINKING is entered only from LISTENING, SWEEPING only
\* from THINKING, COMPLETE only from SWEEPING, and IDLE only from COMPLETE.
C25_MarkerFollowsDocumentedFlow ==
    [][/\ Enters(THINKING) => demo_state = LISTENING
       /\ Enters(SWEEPING) => demo_state = THINKING
       /\ Enters(COMPLETE) => demo_state = SWEEPING
       /\ Enters(IDLE) => demo_state = COMPLETE]_vars

\* C25, amended: THINKING is entered from LISTENING or IDLE, SWEEPING only
\* from THINKING, COMPLETE from SWEEPING or THINKING, IDLE from COMPLETE,
\* THINKING or DISABLED, LISTENING only from IDLE, DISABLED from IDLE or
\* LISTENING; DORMANT and ERROR are never entered.
C25_MarkerTransitions ==
    [][/\ Enters(THINKING) => demo_state \in {LISTENING, IDLE}
       /\ Enters(SWEEPING) => demo_state = THINKING
       /\ Enters(COMPLETE) => demo_state \in {SWEEPING, THINKING}
       /\ Enters(IDLE) => demo_state \in {COMPLETE, THINKING, DISABLED}
       /\ Enters(LISTENING) => demo_state = IDLE
       /\ Enters(DISABLED) => demo_state \in {IDLE, LISTENING}
       /\ demo_state' \notin {DORMANT, ERROR}]_vars

\* COMPLETE has been entered from THINKING: no sweep has run
C25_Witness ==
    /\ demo_pc = "complete"
    /\ demo_state = COMPLETE
    /\ sweep_to = <<>>
    /\ demo_text # <<>>

\* C26: while the demo is disabled, a step that is not the toggle leaves
\* text, state and last_correction_applied as they are and starts no
\* correction, whether a key was read or the pause elapsed.
C26_DisabledIgnoresInput ==
    [][(~enabled /\ ~enabled') =>
          /\ UNCHANGED <<demo_text, demo_state, last_correction_applied>>
          /\ demo_pc' \in {"poll", "exited"}]_vars

\* the demo is disabled with a text, no correction applied and the pause
\* elapsed: the pause branch would start a correction if it were enabled
C26_Witness ==
    /\ ~enabled
    /\ demo_pc = "poll"
    /\ strip(demo_text) # <<>>
    /\ ~last_correction_applied
    /\ pause_elapsed

\* C27: the pause branch calls engine.correct at most once between two
\* keystrokes handled, whatever the outcome of the correction was.
C27_OnePauseCorrectionPerBurst == pause_calls <= 1

\* C28: between loop iterations the state is DISABLED exactly when enabled
\* is False; a step enters or leaves DISABLED only by toggling enabled, and
\* the state does not change while the demo stays disabled.
C28_DisabledIffNotEnabled ==
    /\ [](demo_pc = "poll" => (demo_state = DISABLED <=> ~enabled))
    /\ [][/\ ((demo_state = DISABLED) # (demo_state' = DISABLED))
                 => (enabled' # enabled)
          /\ (~enabled /\ ~enabled') => (demo_state' = demo_state)]_vars

\* the demo has been disabled after some typing
C28_Witness ==
    /\ demo_pc = "poll"
    /\ demo_state = DISABLED
    /\ ~enabled
    /\ Len(demo_text) = 2

\* ------------------------------- claims on the engine's fallback setting
\* C29: return_original_on_failure governs the text of every failure result
\* of correct: set to False the text is None on every failure path, the
\* model-not-found path included; set to True it is the original text (as
\* passed or stripped).
C29_SettingGovernsEveryFailureText ==
    Returned /\ ~result.success =>
        IF config.return_original_on_failure
        THEN result.text \in {Some(caller_text), Some(StrippedCallerText)}
        ELSE result.text = None

\* ---------------------------------------------- download_news_sample
\* lines 354-365: the templates, each as the set of fields it uses; {action}
\* is always 'new initiatives'
news_templates ==
    << {"adj", "noun", "day"}, {"noun", "verb", "percent"}, {"noun"},
       {"adj", "gerund", "noun"}, {"adj"}, {"noun"}, {"percent", "verb"},
       {"noun"}, {"noun"}, {"verb"} >>

adjectives == {"new", "significant", "major", "important", "recent", "growing",
               "increasing", "notable", "substantial", "remarkable"}
nouns == {"policy", "technology", "economy", "industry", "research",
          "development", "initiative", "program", "investment", "partnership"}
verbs == {"improve", "change", "grow", "expand", "develop", "increase",
          "advance"}
gerunds == {"improving", "developing", "understanding", "processing",
            "analyzing"}
days == {"Monday", "Tuesday", "Wednesday", "Thursday", "Friday"}
percents == {"5", "10", "15", "20", "25", "30"}

\* the keyword arguments of one template.format call, by field
Vocabulary ==
    [adj |-> adjectives, noun |-> nouns, verb |-> verbs, gerund |-> gerunds,
     day |-> days, percent |-> percents]
NewsWords == UNION {Vocabulary[field] : field \in DOMAIN Vocabulary}

\* template.format(...): the fixed words of template i with its fields
\* filled in; the arguments the template does not use leave no trace
format(i) ==
    {<<i, filled>> : filled \in
        {choice \in [news_templates[i] -> NewsWords] :
            \A field \in news_templates[i] : choice[field] \in Vocabulary[field]}}

\* every sentence the loop can generate
Sentences == UNION {format(i) : i \in 1..Len(news_templates)}
DistinctSentences == Cardinality(Sentences)

\* line 422: the default of --sentences
DefaultSentences == 10000
\* line 13: --source all --sentences 50000
UsageAllSentences == 50000
\* line 12: --sentences 5000
UsageSentences == 5000
\* a request below the number of sentences the templates can make
SmallSentences == 600
NewsSentenceCounts ==
    {SmallSentences, UsageSentences, DefaultSentences, UsageAllSentences}
\* line 456: the share of the news sample in --source all
NewsShare == 6

\* main with --source news or all, about to reach line 456
InitNews ==
    /\ CoreIdle /\ SentencesIdle /\ WordIdle /\ CorruptSentenceIdle
    /\ TrainingIdle /\ OperatorIdle /\ DemoIdle
    /\ news_source \in {"news", "all"}
    /\ news_sentences \in NewsSentenceCounts
    /\ news_target = 0
    /\ news_len = 0
    /\ news_pc = "main"

news_frame ==
    UNCHANGED <<core_vars, sentence_vars, word_vars, csent_vars, td_vars,
                op_vars, demo_vars, news_source, news_sentences>>

\* lines 456-458, 349: the target of the call, all_sentences = []
news_call ==
    /\ news_pc = "main"
    /\ news_target' = IF news_source = "news" THEN news_sentences
                      ELSE news_sentences \div NewsShare
    /\ news_len' = 0
    /\ news_pc' = "loop"
    /\ news_frame

\* lines 376-389: an iteration that draws a sentence not yet in all_sentences
\* and appends it
news_append ==
    /\ news_pc = "loop"
    /\ news_len < news_target
    \* all_sentences holds news_len distinct sentences: there is another one
    \* to draw
    /\ news_len < DistinctSentences
    /\ news_len' = news_len + 1
    /\ UNCHANGED <<news_target, news_pc>>
    /\ news_frame

\* lines 376-388: an iteration that draws a sentence already in all_sentences
news_duplicate ==
    /\ news_pc = "loop"
    /\ news_len < news_target
    /\ news_len > 0
    /\ UNCHANGED <<news_target, news_len, news_pc>>
    /\ news_frame

\* lines 376, 391: the loop ends, all_sentences is returned
news_return ==
    /\ news_pc = "loop"
    /\ ~(news_len < news_target)
    /\ news_pc' = "returned"
    /\ UNCHANGED <<news_target, news_len>>
    /\ news_frame

NextNews ==
    \/ news_call
    \/ news_append
    \/ news_duplicate
    \/ news_return

SpecNews == InitNews /\ [][NextNews]_vars
\* random.choice gives every template and every word a positive probability:
\* a sentence not yet in the list, when there is one, is eventually drawn
SpecNewsFair ==
    /\ SpecNews
    /\ WF_vars(news_call) /\ WF_vars(news_append) /\ WF_vars(news_return)

\* C30: every call of download_news_sample made by main returns, with
\* exactly target_sentences pairwise distinct sentences.
C30_NewsSampleReturnsTarget ==
    <>(news_pc = "returned" /\ news_len = news_target)

====
